---- MODULE Spec2Model ----
(***************************************************************************)
(* Zangetsu: the master-side replica-slave session (replica_slave.js), the *)
(* Group container (group.js) and the collaborators they call.             *)
(*                                                                         *)
(* JavaScript runs one callback at a time, so every action of this module  *)
(* is one callback or one event, run to completion.  The callbacks that    *)
(* are registered and have not run yet are the set `pending`.              *)
(*                                                                         *)
(* The functions of the source are operators over a record m that holds    *)
(* the whole program state (one field per variable); an action packs the   *)
(* variables into m, applies the callback and unpacks the result.          *)
(***************************************************************************)
EXTENDS Integers, Sequences, FiniteSets, TLC

(* ------------------------------ bounds -------------------------------- *)

\* Records one time entry holds at most (sizes are counted in records).
MaxSize == 2
\* database.add calls during one run.
MaxAdds == 2
\* database.remove calls during one run.
MaxRemoves == 1
\* resultCheckThreshold is drawn from 1..MaxThreshold.
MaxThreshold == 2

\* Group names given to validateGroupName have up to MaxNameLen characters.
MaxNameLen == 2

\* The length of each buffer of a database.add, in bytes.
BufferLength == 3

\* Commands one client sends on its connection.
MaxCommands == 5

\* Calls of requestClose on one session.
MaxCloseRequests == 2

Groups == {"a", "b"}
Days == {1, 2}
GroupSeq == <<"a", "b">>
DaySeq == <<1, 2>>
Keys == Groups \X Days

(* ----------------------- constants of the source ----------------------- *)

UNINITIALIZED == 0
BACKGROUND_SYNCHRONIZING == 1
LOCKED_SYNCHRONIZING == 2
READY == 3
DISCONNECTED == 4

PRUNE_ONE_COMMAND == 0
PRUNE_ALL_COMMAND == 1
FILL_COMMAND == 2
CHECK_RESULTS_COMMAND == 3

\* JavaScript's undefined, for a group name, a number and a callback.
undefinedName == "undefined"
undefined == 0 - 1
noCallback == 0

VARIABLES
    \* ReplicaSlave fields
    state, resultCheckThreshold, serverRole, replied,
    \* the socket
    destroyed, closeEmitted,
    \* the closure of _continueReplication
    toc, workQueue, currentWorkItem, resultCheckCounter, cleanupHandler,
    nextOpId, replicatorStarted,
    \* the event loop: callbacks registered and not yet run
    pending,
    \* Database, Group and TimeEntry objects
    groups, te, dbLocked, writing, subscribed, otherSession,
    \* work items are objects: identity and the `cleaned` field
    nextId, cleaned, readers,
    \* observation of the run
    startOrder, doneCalls, events, failedAsserts, thrown, build,
    addOpids, opidClash, unchecked, lastSent, closeListener, addsLeft,
    removesLeft, refused, afterRefusal, readError,
    \* the last call of a function of group.js, with its outcome
    lastCall,
    \* a client's connection to the server
    client

vars == <<state, resultCheckThreshold, serverRole, replied, destroyed,
          closeEmitted, toc, workQueue, currentWorkItem, resultCheckCounter,
          cleanupHandler, nextOpId, replicatorStarted, pending, groups, te,
          dbLocked, writing, subscribed, otherSession, nextId, cleaned,
          readers, startOrder, doneCalls, events, failedAsserts, thrown,
          build, addOpids, opidClash, unchecked, lastSent, closeListener,
          addsLeft, removesLeft, refused, afterRefusal, readError, lastCall,
          client>>

\* The program state as one record; inp holds the inputs of the step.
Pack(i) ==
    [state |-> state, resultCheckThreshold |-> resultCheckThreshold,
     serverRole |-> serverRole, replied |-> replied,
     destroyed |-> destroyed, closeEmitted |-> closeEmitted, toc |-> toc,
     workQueue |-> workQueue, currentWorkItem |-> currentWorkItem,
     resultCheckCounter |-> resultCheckCounter,
     cleanupHandler |-> cleanupHandler, nextOpId |-> nextOpId,
     replicatorStarted |-> replicatorStarted, pending |-> pending,
     groups |-> groups, te |-> te, dbLocked |-> dbLocked,
     writing |-> writing, subscribed |-> subscribed,
     otherSession |-> otherSession, nextId |-> nextId, cleaned |-> cleaned,
     readers |-> readers, startOrder |-> startOrder, doneCalls |-> doneCalls,
     events |-> events, failedAsserts |-> failedAsserts, thrown |-> thrown,
     build |-> build, addOpids |-> addOpids, opidClash |-> opidClash,
     unchecked |-> unchecked, lastSent |-> lastSent,
     closeListener |-> closeListener, addsLeft |-> addsLeft,
     removesLeft |-> removesLeft, refused |-> refused,
     afterRefusal |-> afterRefusal, readError |-> readError, inp |-> i,
     abort |-> FALSE]

UnpackSession(m) ==
    /\ state' = m.state
    /\ resultCheckThreshold' = m.resultCheckThreshold
    /\ serverRole' = m.serverRole
    /\ replied' = m.replied
    /\ destroyed' = m.destroyed
    /\ closeEmitted' = m.closeEmitted
    /\ toc' = m.toc
    /\ workQueue' = m.workQueue
    /\ currentWorkItem' = m.currentWorkItem
    /\ resultCheckCounter' = m.resultCheckCounter
    /\ cleanupHandler' = m.cleanupHandler
    /\ nextOpId' = m.nextOpId
    /\ replicatorStarted' = m.replicatorStarted
    /\ pending' = m.pending
    /\ groups' = m.groups
    /\ te' = m.te
    /\ dbLocked' = m.dbLocked
    /\ writing' = m.writing
    /\ subscribed' = m.subscribed
    /\ otherSession' = m.otherSession
    /\ nextId' = m.nextId
    /\ cleaned' = m.cleaned
    /\ readers' = m.readers
    /\ startOrder' = m.startOrder
    /\ doneCalls' = m.doneCalls
    /\ events' = m.events
    /\ failedAsserts' = m.failedAsserts
    /\ thrown' = m.thrown
    /\ build' = m.build
    /\ addOpids' = m.addOpids
    /\ opidClash' = m.opidClash
    /\ unchecked' = m.unchecked
    /\ lastSent' = m.lastSent
    /\ closeListener' = m.closeListener
    /\ addsLeft' = m.addsLeft
    /\ removesLeft' = m.removesLeft
    /\ refused' = m.refused
    /\ afterRefusal' = m.afterRefusal
    /\ readError' = m.readError

\* A step of the replica-slave session, the database or the socket.
Unpack(m) == UnpackSession(m) /\ UNCHANGED <<lastCall, client>>

\* The inputs of a step: whether a failing console.assert throws in this
\* build (it does in the Node.js releases before 10, it only prints since),
\* and whether the socket has unsent output (socket.bufferSize > 0).
Inputs == [assertThrows : BOOLEAN, buffered : BOOLEAN]

RECURSIVE Concat(_)
Concat(ss) == IF ss = <<>> THEN <<>> ELSE Head(ss) \o Concat(Tail(ss))

(* ------------------- TimeEntry (time_entry.js) ------------------------- *)

FreshTimeEntry ==
    [writtenSize |-> 0, readOperations |-> 0, closed |-> FALSE,
     closeWhenIdle |-> FALSE, hidden |-> FALSE]

incReadOperations(m, e) == [m EXCEPT !.te[e].readOperations = @ + 1]

\* The close that was asked for while the entry was being read happens when
\* the last reader lets go.
decReadOperations(m, e) ==
    LET n == m.te[e].readOperations - 1 IN
    [m EXCEPT !.te[e].readOperations = n,
              !.te[e].closed = @ \/ (n = 0 /\ m.te[e].closeWhenIdle)]

TimeEntryClose(m, e) ==
    IF m.te[e].readOperations > 0
    THEN [m EXCEPT !.te[e].closeWhenIdle = TRUE]
    ELSE [m EXCEPT !.te[e].closed = TRUE]

\* IOUtils.renameToHidden on a time entry's directory, followed by rm -rf
\* of the hidden name.
RenameToHidden(m, e) == [m EXCEPT !.te[e].hidden = TRUE]

(* ------------------------- Group (group.js) ---------------------------- *)

NoGroup ==
    [exists |-> FALSE, closed |-> FALSE, timeEntryCount |-> 0,
     timeEntries |-> {}]

\* The characters of the names validateGroupName is given, with their
\* character codes: the ends of the ranges a-z, A-Z and 0-9, the three
\* other characters the check lets through, and three it does not.
Chars == {"a", "z", "A", "Z", "0", "9", "_", "-", ".", "/", " ", "{"}

CharCode(ch) ==
    CASE ch = "a" -> 97 [] ch = "z" -> 122 [] ch = "A" -> 65 [] ch = "Z" -> 90
      [] ch = "0" -> 48 [] ch = "9" -> 57 [] ch = "_" -> 95 [] ch = "-" -> 45
      [] ch = "." -> 46 [] ch = "/" -> 47 [] ch = " " -> 32 [] ch = "{" -> 123

validateGroupNameChar(ch) ==
    \/ (CharCode(ch) >= CharCode("a") /\ CharCode(ch) <= CharCode("z"))
    \/ (CharCode(ch) >= CharCode("A") /\ CharCode(ch) <= CharCode("Z"))
    \/ (CharCode(ch) >= CharCode("0") /\ CharCode(ch) <= CharCode("9"))
    \/ ch = "_"
    \/ ch = "-"
    \/ ch = "."

\* name.legth: a string has no such property, its value is undefined.
legth(name) == undefined

\* i < n in JavaScript: false when n is undefined.
LessThan(i, n) == n # undefined /\ i < n

\* The loop of validateGroupName from index i on (name[i] is the i + 1st
\* element of the sequence).
RECURSIVE ValidateLoop(_, _)
ValidateLoop(name, i) ==
    IF ~LessThan(i, legth(name)) THEN TRUE
    ELSE IF ~validateGroupNameChar(name[i + 1]) THEN FALSE
    ELSE ValidateLoop(name, i + 1)

validateGroupName(name) ==
    IF Len(name) = 0 \/ name[1] = "." THEN FALSE
    ELSE ValidateLoop(name, 0)

RECURSIVE CloseAll(_, _, _)
CloseAll(m, g, ds) ==
    IF ds = {} THEN m
    ELSE LET d == CHOOSE x \in ds : TRUE IN
         CloseAll(TimeEntryClose(m, <<g, d>>), g, ds \ {d})

\* close without the reset of timeEntryCount.
GroupCloseKeepCount(m, g) ==
    CloseAll([m EXCEPT !.groups[g].timeEntries = {},
                       !.groups[g].closed = TRUE],
             g, m.groups[g].timeEntries)

GroupClose(m, g) ==
    CloseAll([m EXCEPT !.groups[g].timeEntryCount = 0,
                       !.groups[g].timeEntries = {},
                       !.groups[g].closed = TRUE],
             g, m.groups[g].timeEntries)

\* IOUtils.renameToHidden on the group's directory, followed by rm -rf of
\* the hidden name: the directories of its time entries go with it.
RenameGroupToHidden(m, g) ==
    [m EXCEPT !.te = [e \in Keys |->
                        IF e[1] = g /\ e[2] \in m.groups[g].timeEntries
                        THEN [m.te[e] EXCEPT !.hidden = TRUE]
                        ELSE m.te[e]]]

\* removeOne without the decrement of timeEntryCount.
GroupRemoveOneKeepCount(m, g, dst, renameFails) ==
    IF dst \notin m.groups[g].timeEntries THEN m
    ELSE IF renameFails THEN m
    ELSE LET m1 == TimeEntryClose(RenameToHidden(m, <<g, dst>>), <<g, dst>>) IN
         [m1 EXCEPT !.groups[g].timeEntries = @ \ {dst}]

\* removeOne(dayTimestamp, callback); renameFails is the outcome of
\* IOUtils.renameToHidden.
GroupRemoveOne(m, g, dst, renameFails) ==
    IF dst \notin m.groups[g].timeEntries THEN m
    ELSE IF renameFails THEN m
    ELSE LET m1 == TimeEntryClose(RenameToHidden(m, <<g, dst>>), <<g, dst>>) IN
         [m1 EXCEPT !.groups[g].timeEntryCount = @ - 1,
                    !.groups[g].timeEntries = @ \ {dst}]

\* The loop going on with the next entry after a rename that throws.
RECURSIVE RemoveLoopPastFailure(_, _, _, _, _)
RemoveLoopPastFailure(m, g, dts, i, failAt) ==
    IF i > Len(dts) THEN m
    ELSE IF i = failAt THEN RemoveLoopPastFailure(m, g, dts, i + 1, failAt)
    ELSE LET e == <<g, dts[i]>>
             m1 == TimeEntryClose(RenameToHidden(m, e), e)
             m2 == [m1 EXCEPT !.groups[g].timeEntryCount = @ - 1,
                              !.groups[g].timeEntries = @ \ {dts[i]}]
         IN RemoveLoopPastFailure(m2, g, dts, i + 1, failAt)

\* The loop of remove(dayTimestamp, callback) over dayTimestampsToRemove,
\* from its i-th element on; failAt is the index at which the rename throws
\* (0: none does).
RECURSIVE RemoveLoop(_, _, _, _, _)
RemoveLoop(m, g, dts, i, failAt) ==
    IF i > Len(dts) THEN m
    ELSE IF i = failAt THEN m
    ELSE LET e == <<g, dts[i]>>
             m1 == TimeEntryClose(RenameToHidden(m, e), e)
             m2 == [m1 EXCEPT !.groups[g].timeEntryCount = @ - 1,
                              !.groups[g].timeEntries = @ \ {dts[i]}]
         IN RemoveLoop(m2, g, dts, i + 1, failAt)

\* The keys of timeEntries that parse to less than dayTimestamp, in the
\* order for-in yields them (integer keys come in ascending order).
DayTimestampsToRemove(m, g, dayTimestamp) ==
    SelectSeq(DaySeq, LAMBDA d : d \in m.groups[g].timeEntries /\ d < dayTimestamp)

\* remove(dayTimestamp, callback): a dayTimestamp that is undefined or 0 is
\* falsy and removes the group itself.
GroupRemove(m, g, dayTimestamp, failAt) ==
    IF dayTimestamp # undefined /\ dayTimestamp # 0
    THEN RemoveLoop(m, g, DayTimestampsToRemove(m, g, dayTimestamp), 1, failAt)
    ELSE IF failAt # 0 THEN m
    ELSE GroupClose(RenameGroupToHidden(m, g), g)

\* The calls remove(dayTimestamp, callback) makes of its callback, by their
\* argument: callback(err) and return when a rename throws, callback()
\* after the loop or after the rename of the group's directory.
RemoveCallbacks(m, g, dayTimestamp, failAt) ==
    IF dayTimestamp # undefined /\ dayTimestamp # 0
    THEN IF failAt \in 1..Len(DayTimestampsToRemove(m, g, dayTimestamp))
         THEN <<"err">>
         ELSE <<"ok">>
    ELSE IF failAt # 0 THEN <<"err">> ELSE <<"ok">>

\* The calls removeOne(dayTimestamp, callback) makes of its callback:
\* callback() and return for a missing entry, callback(err) and return when
\* the rename throws, callback() at the end.
RemoveOneCallbacks(m, g, dst, renameFails) ==
    IF dst \notin m.groups[g].timeEntries THEN <<"ok">>
    ELSE IF renameFails THEN <<"err">>
    ELSE <<"ok">>

\* close(callback) up to its return: counter is the timeEntryCount it
\* started with, closing the time entries whose close has been given the
\* function of lines 55-61; the callback is called at once when counter is 0.
CloseCalls(m, g) ==
    [counter |-> m.groups[g].timeEntryCount,
     closing |-> m.groups[g].timeEntries,
     callbacks |-> IF m.groups[g].timeEntryCount = 0 THEN <<"ok">> ELSE <<>>]

\* The function close gives to each time entry's close (lines 55-61), run
\* when the entry d has finished closing.
timeEntryClosed(call, d) ==
    [call EXCEPT !.counter = @ - 1,
                 !.closing = @ \ {d},
                 !.callbacks = IF call.counter - 1 = 0
                               THEN Append(@, "ok") ELSE @]


(* ------------------ work items and registered callbacks ---------------- *)

\* A work item of the replicator.  dataBuffers is the number of buffers of
\* a forwarded write (undefined for an item of the diff); the item's
\* timeEntry is the one of <<groupName, dayTimestamp>>.
NoItem ==
    [id |-> 0, command |-> undefined, groupName |-> undefinedName,
     group |-> undefinedName, dayTimestamp |-> undefined,
     dataBuffers |-> undefined, size |-> 0, callback |-> noCallback]

TimeEntryOf(details) == <<details.groupName, details.dayTimestamp>>

\* A callback waiting in the event loop: its kind, the work item it closes
\* over, and the other values it closes over.
CB(k, details, rest) == [k |-> k, item |-> details, rest |-> rest]

Register(m, cb) == [m EXCEPT !.pending = @ \cup {cb}]

\* An exception leaves the running callback.
Throw(m, line) == [m EXCEPT !.thrown = @ \cup {line}, !.abort = TRUE]

\* console.assert(cond): a failing assertion throws or prints, as the build
\* has it.
consoleAssert(m, cond, line) ==
    IF cond \/ m.abort THEN m
    ELSE LET b == IF m.build # "unknown" THEN m.build
                  ELSE IF m.inp.assertThrows THEN "throws" ELSE "logs"
             m1 == [m EXCEPT !.failedAsserts = @ \cup {line}, !.build = b]
         IN IF b = "throws" THEN Throw(m1, line) ELSE m1

(* --------------------- the slave's table of contents ------------------- *)

\* toc.groups are the group names toc has; toc.size[<<g, d>>] is
\* toc[g][d].size, undefined when toc[g] has no d.
EmptyToc == [groups |-> {}, size |-> [e \in Keys |-> undefined]]

TocHasGroup(t, g) == g \in t.groups
TocHasEntry(t, g, d) == g \in t.groups /\ <<g, d>> \in Keys /\ t.size[<<g, d>>] # undefined

TocDeleteEntry(t, g, d) ==
    IF <<g, d>> \in Keys THEN [t EXCEPT !.size[<<g, d>>] = undefined] ELSE t

TocDeleteGroup(t, g) ==
    [groups |-> t.groups \ {g},
     size |-> [e \in Keys |-> IF e[1] = g THEN undefined ELSE t.size[e]]]

(* ------------------------- ReplicaSlave -------------------------------- *)

connected(m) == m.state # DISCONNECTED /\ ~m.destroyed

ready(m) == m.state = READY

\* output.writeJSON(message): what the slave is sent.
writeJSON(m, message) ==
    LET m1 == [m EXCEPT !.lastSent = message,
                        !.afterRefusal = IF m.refused THEN @ \cup {"write"}
                                         ELSE @] IN
    IF message.command = "add"
    THEN [m1 EXCEPT !.opidClash = @ \/ message.opid \in m.addOpids,
                    !.addOpids = @ \cup {message.opid},
                    !.unchecked = @ + 1]
    ELSE IF message.command = "results"
    THEN [m1 EXCEPT !.unchecked = 0]
    ELSE m1

Message(c, g, d, o) ==
    [command |-> c, group |-> g, dayTimestamp |-> d, opid |-> o,
     timestamp |-> undefined, size |-> undefined]

\* The `add` command for the day d, with the size of the data that follows.
AddMessage(g, d, o, size) ==
    [Message("add", g, d, o) EXCEPT !.timestamp = d * 24 * 60 * 60,
                                    !.size = size]

\* The total length of the n buffers of an item, as the loop at lines
\* 621-623 adds it up.
RECURSIVE TotalDataSize(_)
TotalDataSize(n) ==
    IF n = 0 THEN 0 ELSE TotalDataSize(n - 1) + BufferLength

\* The slave has answered ok to a `results` command: it has cleared its
\* table of opids.
ResultsAcknowledged(m) == [m EXCEPT !.addOpids = {}]

\* socket.destroy(), at once or when the pending output has drained.
DestroySocket(m) ==
    IF m.inp.buffered THEN Register(m, CB("drain", NoItem, <<>>))
    ELSE [m EXCEPT !.destroyed = TRUE]

_disconnect(m) ==
    IF connected(m)
    THEN [DestroySocket(m) EXCEPT !.state = DISCONNECTED]
    ELSE m

_disconnectWithError(m) ==
    IF connected(m)
    THEN [DestroySocket(m) EXCEPT !.state = DISCONNECTED]
    ELSE m

\* _readJsonObject(callback), when readJsonObject comes back with r: the
\* callback runs when Delivered, and otherwise this is what happens.
Replies == {"ok", "error", "invalid", "ioerror", "eof"}

_readJsonObject(m, r) ==
    IF r = "invalid" THEN _disconnectWithError(m)
    ELSE IF r = "ioerror" THEN m
    ELSE IF connected(m) /\ r = "eof" THEN _disconnect(m)
    ELSE m

Delivered(m, r) == r \in {"ok", "error"} /\ connected(m)


(* ----------------- the closure of _continueReplication ----------------- *)

\* startReplicator without the test of replicatorStarted.
startReplicatorAgain(m) ==
    IF /\ m.state # BACKGROUND_SYNCHRONIZING
       /\ m.state # LOCKED_SYNCHRONIZING
       /\ connected(m)
    THEN Register([m EXCEPT !.replicatorStarted = TRUE],
                  CB("processNextReplicationCommand", NoItem, <<>>))
    ELSE m

startReplicator(m) ==
    IF /\ ~m.replicatorStarted
       /\ m.state # BACKGROUND_SYNCHRONIZING
       /\ m.state # LOCKED_SYNCHRONIZING
       /\ connected(m)
    THEN Register([m EXCEPT !.replicatorStarted = TRUE],
                  CB("processNextReplicationCommand", NoItem, <<>>))
    ELSE m

\* addToWorkQueue comparing the counter with > instead of >=.
addToWorkQueueLate(m, item, callback) ==
    LET pushed == [m EXCEPT !.workQueue = Append(@, [item EXCEPT !.id = m.nextId]),
                            !.nextId = @ + 1]
        counter == m.resultCheckCounter + 1
    IN  IF item.command = FILL_COMMAND /\ item.dataBuffers # undefined
        THEN IF counter > m.resultCheckThreshold
             THEN [pushed EXCEPT
                     !.resultCheckCounter = 0,
                     !.workQueue = Append(@, [NoItem EXCEPT
                                                !.id = pushed.nextId,
                                                !.command = CHECK_RESULTS_COMMAND,
                                                !.callback = callback]),
                     !.nextId = @ + 1]
             ELSE [pushed EXCEPT
                     !.resultCheckCounter = counter,
                     !.workQueue[Len(pushed.workQueue)].callback = callback]
        ELSE [pushed EXCEPT !.workQueue[Len(pushed.workQueue)].callback = callback]

addToWorkQueue(m, item, callback) ==
    LET pushed == [m EXCEPT !.workQueue = Append(@, [item EXCEPT !.id = m.nextId]),
                            !.nextId = @ + 1]
        counter == m.resultCheckCounter + 1
    IN  IF item.command = FILL_COMMAND /\ item.dataBuffers # undefined
        THEN IF counter >= m.resultCheckThreshold
             THEN [pushed EXCEPT
                     !.resultCheckCounter = 0,
                     !.workQueue = Append(@, [NoItem EXCEPT
                                                !.id = pushed.nextId,
                                                !.command = CHECK_RESULTS_COMMAND,
                                                !.callback = callback]),
                     !.nextId = @ + 1]
             ELSE [pushed EXCEPT
                     !.resultCheckCounter = counter,
                     !.workQueue[Len(pushed.workQueue)].callback = callback]
        ELSE [pushed EXCEPT !.workQueue[Len(pushed.workQueue)].callback = callback]

\* The `done` of an `adding` event is called.
InvokeCallback(m, callback) == [m EXCEPT !.doneCalls[callback] = @ + 1]

cleanupWorkItem(m, details) ==
    IF details.id \in m.cleaned THEN m
    ELSE LET m1 == [m EXCEPT !.cleaned = @ \cup {details.id}]
             m2 == IF details.command = FILL_COMMAND
                   THEN decReadOperations(m1, TimeEntryOf(details))
                   ELSE m1
         IN  IF details.callback # noCallback
             THEN InvokeCallback(m2, details.callback)
             ELSE m2

RECURSIVE CleanupItems(_, _)
CleanupItems(m, queue) ==
    IF queue = <<>> THEN m
    ELSE CleanupItems(cleanupWorkItem(m, Head(queue)), Tail(queue))

cleanupWorkQueue(m) ==
    LET queue == m.workQueue
        currentItem == m.currentWorkItem
        m1 == CleanupItems([m EXCEPT !.workQueue = <<>>,
                                     !.currentWorkItem = NoItem], queue)
    IN  IF currentItem # NoItem THEN cleanupWorkItem(m1, currentItem) ELSE m1

DiffItem(command, g, d) ==
    [NoItem EXCEPT !.command = command, !.groupName = g, !.dayTimestamp = d]

\* The first loop for an entry, without the FILL after the PRUNE_ONE of an
\* entry the slave is ahead on.
SlaveEntryCommandsPruneOnly(m, g, d) ==
    IF ~TocHasEntry(m.toc, g, d) THEN <<>>
    ELSE IF d \in m.groups[g].timeEntries
    THEN IF m.te[<<g, d>>].writtenSize < m.toc.size[<<g, d>>]
         THEN <<DiffItem(PRUNE_ONE_COMMAND, g, d)>>
         ELSE <<>>
    ELSE <<DiffItem(PRUNE_ONE_COMMAND, g, d)>>

\* The first loop of scheduleSlaveSynchronizationCommands, for one entry
\* and for one group of toc.
SlaveEntryCommands(m, g, d) ==
    IF ~TocHasEntry(m.toc, g, d) THEN <<>>
    ELSE IF d \in m.groups[g].timeEntries
    THEN IF m.te[<<g, d>>].writtenSize < m.toc.size[<<g, d>>]
         THEN <<DiffItem(PRUNE_ONE_COMMAND, g, d), DiffItem(FILL_COMMAND, g, d)>>
         ELSE <<>>
    ELSE <<DiffItem(PRUNE_ONE_COMMAND, g, d)>>

SlaveGroupCommands(m, g) ==
    IF ~TocHasGroup(m.toc, g) THEN <<>>
    ELSE IF m.groups[g].exists
    THEN Concat([j \in 1..Len(DaySeq) |-> SlaveEntryCommands(m, g, DaySeq[j])])
    ELSE <<DiffItem(PRUNE_ONE_COMMAND, g, undefined)>>

\* The second loop, for one time entry of database.groups.
MasterEntryCommands(m, g, d) ==
    IF ~(m.groups[g].exists /\ d \in m.groups[g].timeEntries) THEN <<>>
    ELSE IF TocHasEntry(m.toc, g, d)
    THEN IF m.te[<<g, d>>].writtenSize > m.toc.size[<<g, d>>]
         THEN <<DiffItem(FILL_COMMAND, g, d)>>
         ELSE <<>>
    ELSE IF m.te[<<g, d>>].writtenSize > 0
         THEN <<DiffItem(FILL_COMMAND, g, d)>>
         ELSE <<>>

\* The items one run of scheduleSlaveSynchronizationCommands passes to
\* addToWorkQueue, in order (for-in takes the groups in GroupSeq order).
SynchronizationCommands(m) ==
    Concat([i \in 1..Len(GroupSeq) |-> SlaveGroupCommands(m, GroupSeq[i])])
    \o Concat([i \in 1..Len(GroupSeq) |->
          Concat([j \in 1..Len(DaySeq) |->
                    MasterEntryCommands(m, GroupSeq[i], DaySeq[j])])])

RECURSIVE EnqueueCommands(_, _)
EnqueueCommands(m, items) ==
    IF items = <<>> THEN m
    ELSE LET item == Head(items)
             m1 == addToWorkQueue(m, item, noCallback)
             m2 == IF item.command = FILL_COMMAND
                   THEN incReadOperations(m1, TimeEntryOf(item))
                   ELSE m1
         IN  EnqueueCommands(m2, Tail(items))

scheduleSlaveSynchronizationCommands(m) ==
    EnqueueCommands(m, SynchronizationCommands(m))


RECURSIVE processNextReplicationCommand(_)

\* record.stop() of the reader that streams the item's time entry: it lets
\* go of the time entry once.
stop(m, details) ==
    IF details.id \in m.readers
    THEN decReadOperations([m EXCEPT !.readers = @ \ {details.id}],
                           TimeEntryOf(details))
    ELSE m

pruneNextTimestamp(m, details, dayTimestampsToPrune) ==
    IF dayTimestampsToPrune # <<>>
    THEN LET n == Len(dayTimestampsToPrune) IN
         Register(writeJSON(m, Message("removeOne", details.group,
                                       dayTimestampsToPrune[n], undefined)),
                  CB("sentRemoveOneCommand", details,
                     SubSeq(dayTimestampsToPrune, 1, n - 1)))
    ELSE processNextReplicationCommand(cleanupWorkItem(m, details))

RECURSIVE TocDeleteEntries(_, _, _)
TocDeleteEntries(t, g, ds) ==
    IF ds = <<>> THEN t
    ELSE TocDeleteEntries(TocDeleteEntry(t, g, Head(ds)), g, Tail(ds))

pruneAll(m, details) ==
    IF TocHasGroup(m.toc, details.group)
    THEN LET dayTimestampsToPrune ==
                 SelectSeq(DaySeq, LAMBDA d :
                     TocHasEntry(m.toc, details.group, d)
                     /\ d < details.dayTimestamp)
         IN  pruneNextTimestamp(
                 [m EXCEPT !.toc = TocDeleteEntries(@, details.group,
                                                    dayTimestampsToPrune)],
                 details, dayTimestampsToPrune)
    ELSE processNextReplicationCommand(cleanupWorkItem(m, details))

sentRemoveOneCommand(m, err, details, dayTimestampsToPrune) ==
    IF connected(m) /\ ~err
    THEN Register(m, CB("receivedReplyForRemoveOneCommand", details,
                        dayTimestampsToPrune))
    ELSE m

receivedReplyForRemoveOneCommand(m, reply, details, dayTimestampsToPrune) ==
    IF reply = "ok"
    THEN pruneNextTimestamp(m, details, dayTimestampsToPrune)
    ELSE _disconnect(m)

\* With groupOnReplica undefined, groupOnReplica[details.dayTimestamp] is a
\* TypeError.
pruneOne(m, details) ==
    LET g == details.groupName
        d == details.dayTimestamp
        m1 == consoleAssert(m, TocHasGroup(m.toc, g), 543)
    IN  IF m1.abort THEN m1
        ELSE IF d # undefined
        THEN IF ~TocHasGroup(m.toc, g) THEN Throw(m1, 552)
             ELSE LET m2 == consoleAssert(m1, TocHasEntry(m.toc, g, d), 552) IN
                  IF m2.abort THEN m2
                  ELSE Register(
                         writeJSON([m2 EXCEPT !.toc = TocDeleteEntry(@, g, d)],
                                   Message("removeOne", g, d, undefined)),
                         CB("sentRemoveCommand", details, <<>>))
        ELSE Register(
               writeJSON([m1 EXCEPT !.toc = TocDeleteGroup(@, g)],
                         Message("remove", g, undefined, undefined)),
               CB("sentRemoveCommand", details, <<>>))

sentRemoveCommand(m, err, details) ==
    IF connected(m) /\ ~err
    THEN Register(m, CB("receivedReplyForRemoveCommand", details, <<>>))
    ELSE m

\* receivedReplyForRemoveCommand going on with the next item whatever the
\* reply.
receivedReplyForRemoveCommandAnyReply(m, reply, details) ==
    processNextReplicationCommand(cleanupWorkItem(m, details))

receivedReplyForRemoveCommand(m, reply, details) ==
    IF reply = "ok"
    THEN processNextReplicationCommand(cleanupWorkItem(m, details))
    ELSE _disconnect(m)

\* fillBySendingBuffers without nextOpId++.
fillBySendingBuffersSameOpid(m, details) ==
    LET m1 == consoleAssert(m, m.state = READY, 618) IN
    IF m1.abort THEN m1
    ELSE Register(
           writeJSON(m1, AddMessage(details.groupName, details.dayTimestamp,
                                    m1.nextOpId,
                                    TotalDataSize(details.dataBuffers))),
           CB("written", details, [i \in 1..details.dataBuffers |-> i]))

\* The buffers are written in order behind the command, and `written` is
\* the callback of the last write: of the command when there is no buffer.
fillBySendingBuffers(m, details) ==
    LET m1 == consoleAssert(m, m.state = READY, 618) IN
    IF m1.abort THEN m1
    ELSE Register(
           writeJSON([m1 EXCEPT !.nextOpId = @ + 1],
                     AddMessage(details.groupName, details.dayTimestamp,
                                m1.nextOpId,
                                TotalDataSize(details.dataBuffers))),
           CB("written", details, [i \in 1..details.dataBuffers |-> i]))

\* written leaving the mirrored size as it is.
writtenNoGrowth(m, details) ==
    processNextReplicationCommand(cleanupWorkItem(m, details))

written(m, details) ==
    LET e == TimeEntryOf(details)
        m1 == IF TocHasEntry(m.toc, e[1], e[2])
              THEN [m EXCEPT !.toc.size[e] = @ + details.size]
              ELSE m
    IN  processNextReplicationCommand(cleanupWorkItem(m1, details))

fillByStreamingDataFile(m, details) == Register(m, CB("get", details, <<>>))

\* timeEntry.each(offset, callback) counts as a read operation until it is
\* stopped or has reached the end.
startStreamingDataFile(m, details) ==
    LET e == TimeEntryOf(details)
        m1 == consoleAssert(m, m.state \in {BACKGROUND_SYNCHRONIZING,
                                            LOCKED_SYNCHRONIZING}, 681)
    IN  IF m1.abort THEN m1
        ELSE Register(
               incReadOperations([m1 EXCEPT !.readers = @ \cup {details.id}], e),
               CB("each", details, <<m1.toc.size[e]>>))

\* getCallback streaming whether or not the read has failed.
getCallbackNoRefill(m, err, details) ==
    IF ~connected(m) THEN m
    ELSE startStreamingDataFile(m, details)

\* The callback of timeEntry.get(details.timeEntryOnReplica.size, ...).
getCallback(m, err, details) ==
    IF ~connected(m) THEN m
    ELSE IF err
    THEN Register(writeJSON(m, Message("removeOne", details.groupName,
                                       details.dayTimestamp, undefined)),
                  CB("refillReply", details, <<>>))
    ELSE startStreamingDataFile(m, details)

\* The callback of the _readJsonObject in fillByStreamingDataFile.
refillReply(m, reply, details) ==
    IF reply = "ok"
    THEN startStreamingDataFile(
             [m EXCEPT !.toc.size[TimeEntryOf(details)] = 0], details)
    ELSE _disconnect(m)

\* The callback of timeEntry.each: with a record while offset is short of
\* what is written, with eof after that.  The size of the `add` is the
\* record's dataSize, which the model does not follow.
eachCallback(m, err, details, offset) ==
    LET e == TimeEntryOf(details)
        record == ~err /\ offset < m.te[e].writtenSize
    IN  IF ~connected(m) THEN stop(m, details)
        ELSE IF err THEN _disconnectWithError(stop(m, details))
        ELSE IF record
        THEN Register(
               writeJSON([m EXCEPT !.nextOpId = @ + 1,
                                   !.toc.size[e] = @ + 1,
                                   !.cleanupHandler = details],
                         AddMessage(details.groupName, details.dayTimestamp,
                                    m.nextOpId, undefined)),
               CB("dataFileRecordSent", details, <<offset + 1>>))
        ELSE LET m1 == stop(m, details) IN
             IF m1.resultCheckCounter = 0
             THEN processNextReplicationCommand(cleanupWorkItem(m1, details))
             ELSE Register(
                    writeJSON([m1 EXCEPT !.resultCheckCounter = 0],
                              Message("results", undefinedName, undefined,
                                      undefined)),
                    CB("resultsSentAtEof", details, <<>>))

\* continueReading is defined nowhere: calling it is a ReferenceError.
dataFileRecordSent(m, err, details, offset) ==
    IF ~connected(m) \/ err THEN stop(m, details)
    ELSE LET counter == m.resultCheckCounter + 1 IN
         IF counter >= m.resultCheckThreshold
         THEN Register(
                writeJSON([m EXCEPT !.resultCheckCounter = 0],
                          Message("results", undefinedName, undefined,
                                  undefined)),
                CB("resultsSentAfterRecord", details, <<offset>>))
         ELSE Throw([m EXCEPT !.resultCheckCounter = counter], 770)

\* The callback of the _writeJSON in dataFileRecordSent; stop is defined
\* nowhere: calling it is a ReferenceError.
resultsSentAfterRecord(m, err, details, offset) ==
    IF err \/ ~connected(m) THEN Throw(m, 760)
    ELSE Register(m, CB("handleCheckResultAfterSendingDataFileRecord",
                        details, <<offset>>))

handleCheckResultAfterSendingDataFileRecord(m, reply, details, offset) ==
    LET m1 == [m EXCEPT !.cleanupHandler = NoItem] IN
    IF reply = "ok"
    THEN Register(ResultsAcknowledged([m1 EXCEPT !.nextOpId = 0]),
                  CB("each", details, <<offset>>))
    ELSE stop(_disconnect(m1), details)

\* The callback of the _writeJSON at the end of the file.
resultsSentAtEof(m, err, details) ==
    IF ~err /\ connected(m)
    THEN Register(m, CB("dataFileFullyStreamed", details, <<>>))
    ELSE m

dataFileFullyStreamed(m, reply, details) ==
    IF reply = "ok"
    THEN processNextReplicationCommand(
             cleanupWorkItem(ResultsAcknowledged([m EXCEPT !.nextOpId = 0]),
                             details))
    ELSE _disconnect(m)

checkResults(m, details) ==
    Register(writeJSON(m, Message("results", undefinedName, undefined,
                                  undefined)),
             CB("checkResultsSent", details, <<>>))

\* The callback of the _writeJSON in checkResults.
checkResultsSent(m, err, details) ==
    IF ~err /\ connected(m)
    THEN Register(m, CB("handleCheckResult", details, <<>>))
    ELSE m

handleCheckResult(m, reply, details) ==
    IF reply = "ok"
    THEN processNextReplicationCommand(
             cleanupWorkItem(ResultsAcknowledged([m EXCEPT !.nextOpId = 0]),
                             details))
    ELSE _disconnect(m)

fill(m, details) ==
    LET g == details.groupName
        e == TimeEntryOf(details)
        t1 == IF TocHasGroup(m.toc, g) THEN m.toc
              ELSE [m.toc EXCEPT !.groups = @ \cup {g}]
        t2 == IF t1.size[e] # undefined THEN t1
              ELSE [t1 EXCEPT !.size[e] = 0]
        m1 == [m EXCEPT !.toc = t2]
    IN  IF details.dataBuffers # undefined
        THEN LET m2 == consoleAssert(m1, m1.state = READY, 608) IN
             IF m2.abort THEN m2 ELSE fillBySendingBuffers(m2, details)
        ELSE LET m2 == consoleAssert(m1, m1.state \in {BACKGROUND_SYNCHRONIZING,
                                                       LOCKED_SYNCHRONIZING},
                                     611) IN
             IF m2.abort THEN m2 ELSE fillByStreamingDataFile(m2, details)


\* database.lock(callback): no add starts from here on, and the callback
\* runs once the adds under way have finished.
DatabaseLock(m) ==
    Register([m EXCEPT !.dbLocked = TRUE], CB("lockCallback", NoItem, <<>>))

DatabaseUnlock(m) == [m EXCEPT !.dbLocked = FALSE]

\* doneBackgroundSynchronizing asking for the lock callback without locking
\* the database.
doneBackgroundSynchronizingUnlocked(m) ==
    LET m1 == consoleAssert(m, m.workQueue = <<>>, 888)
        m2 == consoleAssert(m1, m1.currentWorkItem = NoItem, 890)
    IN  IF m2.abort THEN m2
        ELSE Register([m2 EXCEPT !.state = LOCKED_SYNCHRONIZING],
                      CB("lockCallback", NoItem, <<>>))

\* doneBackgroundSynchronizing going straight to READY.
doneBackgroundSynchronizingToReady(m) ==
    DatabaseLock([m EXCEPT !.state = READY])

doneBackgroundSynchronizing(m) ==
    LET m1 == consoleAssert(m, m.workQueue = <<>>, 888)
        m2 == consoleAssert(m1, m1.currentWorkItem = NoItem, 890)
    IN  IF m2.abort THEN m2
        ELSE DatabaseLock([m2 EXCEPT !.state = LOCKED_SYNCHRONIZING])

doneLockedSynchronizing(m) ==
    LET m1 == consoleAssert(m, m.workQueue = <<>>, 901)
        m2 == consoleAssert(m1, m1.currentWorkItem = NoItem, 903)
    IN  IF m2.abort THEN m2
        ELSE Register(writeJSON(m2, Message("ping", undefinedName, undefined,
                                            undefined)),
                      CB("pingReply", NoItem, <<>>))

\* Starting a work item: it leaves the queue and becomes the current one,
\* and its command field is deleted.
StartWorkItem(m) ==
    [m EXCEPT !.workQueue = Tail(@),
              !.currentWorkItem = [Head(m.workQueue) EXCEPT !.command = undefined],
              !.startOrder = Append(@, Head(m.workQueue).id),
              !.afterRefusal = IF m.refused THEN @ \cup {"start"} ELSE @]

processNextReplicationCommand(m) ==
    IF ~connected(m) THEN m
    ELSE IF m.workQueue # <<>>
    THEN LET command == Head(m.workQueue).command
             m1 == StartWorkItem(m)
             details == m1.currentWorkItem
         IN  CASE command = PRUNE_ONE_COMMAND -> pruneOne(m1, details)
               [] command = PRUNE_ALL_COMMAND -> pruneAll(m1, details)
               [] command = FILL_COMMAND -> fill(m1, details)
               [] command = CHECK_RESULTS_COMMAND -> checkResults(m1, details)
               [] OTHER -> consoleAssert(m1, FALSE, 388)
    ELSE IF m.state = BACKGROUND_SYNCHRONIZING
    THEN LET m1 == consoleAssert(m, ~m.replicatorStarted, 392) IN
         IF m1.abort THEN m1
         ELSE LET m2 == scheduleSlaveSynchronizationCommands(
                            [m1 EXCEPT !.currentWorkItem = NoItem])
              IN  IF Len(m2.workQueue) > 0
                  THEN processNextReplicationCommand(m2)
                  ELSE doneBackgroundSynchronizing(m2)
    ELSE IF m.state = LOCKED_SYNCHRONIZING
    THEN LET m1 == consoleAssert(m, ~m.replicatorStarted, 406) IN
         IF m1.abort THEN m1
         ELSE LET m2 == scheduleSlaveSynchronizationCommands(
                            [m1 EXCEPT !.currentWorkItem = NoItem])
                  m3 == consoleAssert(m2, Len(m2.workQueue) = 0, 411)
              IN  IF m3.abort THEN m3 ELSE doneLockedSynchronizing(m3)
    ELSE LET m1 == consoleAssert(m, m.state = READY, 417)
             m2 == consoleAssert(m1, m1.replicatorStarted, 418)
         IN  IF m2.abort THEN m2
             ELSE [m2 EXCEPT !.currentWorkItem = NoItem,
                             !.replicatorStarted = FALSE]

\* The callback of database.lock in doneBackgroundSynchronizing.
lockCallback(m) ==
    LET m1 == consoleAssert(m, Len(m.workQueue) = 0, 894) IN
    IF m1.abort THEN m1
    ELSE processNextReplicationCommand(scheduleSlaveSynchronizationCommands(m1))

\* The callback of the _readJsonObject in doneLockedSynchronizing.
pingReply(m) ==
    DatabaseUnlock([m EXCEPT !.state = READY, !.subscribed = TRUE])

onAddingToOurDatabase(m, groupName, dayTimestamp, dataBuffers, done) ==
    IF ~connected(m) THEN InvokeCallback(m, done)
    ELSE LET m1 == consoleAssert(m, m.state # LOCKED_SYNCHRONIZING, 828) IN
         IF m1.abort THEN m1
         ELSE IF m1.state = READY
         THEN startReplicator(
                addToWorkQueue(
                  incReadOperations(m1, <<groupName, dayTimestamp>>),
                  [NoItem EXCEPT !.command = FILL_COMMAND,
                                 !.groupName = groupName,
                                 !.dayTimestamp = dayTimestamp,
                                 !.dataBuffers = dataBuffers,
                                 !.size = 1],
                  done))
         ELSE InvokeCallback(m1, done)

\* if (dayTimestamp): undefined and 0 are falsy.
onRemoveFromOurDatabase(m, groupName, dayTimestamp) ==
    IF ~connected(m) THEN m
    ELSE LET m1 == consoleAssert(m, m.state # LOCKED_SYNCHRONIZING, 850) IN
         IF m1.abort THEN m1
         ELSE IF m1.state = READY
         THEN IF dayTimestamp # undefined /\ dayTimestamp # 0
              THEN startReplicator(
                     addToWorkQueue(m1,
                       [NoItem EXCEPT !.command = PRUNE_ALL_COMMAND,
                                      !.group = groupName,
                                      !.dayTimestamp = dayTimestamp],
                       noCallback))
              ELSE startReplicator(
                     addToWorkQueue(m1,
                       [NoItem EXCEPT !.command = PRUNE_ONE_COMMAND,
                                      !.group = groupName],
                       noCallback))
         ELSE m1

onConnectionClose(m) ==
    LET m1 == [m EXCEPT !.subscribed = FALSE]
        m2 == IF m1.cleanupHandler # NoItem
              THEN stop([m1 EXCEPT !.cleanupHandler = NoItem], m1.cleanupHandler)
              ELSE m1
    IN  cleanupWorkQueue(m2)

_continueReplication(m, slaveToc) ==
    LET m1 == consoleAssert(m, m.state = BACKGROUND_SYNCHRONIZING, 182) IN
    IF m1.abort THEN m1
    ELSE processNextReplicationCommand(
             scheduleSlaveSynchronizationCommands(
                 [m1 EXCEPT !.toc = slaveToc, !.closeListener = TRUE]))

_startReplication(m) ==
    LET m1 == consoleAssert(m, m.state = UNINITIALIZED, 168) IN
    IF m1.abort THEN m1
    ELSE Register([writeJSON(m1, Message("getToc", undefinedName, undefined,
                                         undefined))
                     EXCEPT !.state = BACKGROUND_SYNCHRONIZING],
                  CB("_continueReplication", NoItem, <<>>))

\* The two replies of initialize, as the fields they carry.
OkReply ==
    {<<"status", "ok">>, <<"your_role", "slave">>, <<"my_role", "master">>}

NotMasterReply ==
    {<<"status", "not-master">>, <<"master_host", "server.masterHostName">>,
     <<"master_port", "server.masterPort">>}

\* initialize starting the replication whatever the server's role.
initializeAnyRole(m) ==
    LET m1 == [m EXCEPT !.replied = IF m.serverRole = "master" THEN OkReply
                                    ELSE NotMasterReply] IN
    IF connected(m1) THEN _startReplication(m1) ELSE m1

initialize(m) ==
    IF m.serverRole = "master"
    THEN LET m1 == [m EXCEPT !.replied = OkReply] IN
         IF connected(m1) THEN _startReplication(m1) ELSE m1
    ELSE LET m1 == consoleAssert(m, m.serverRole = "slave", 156) IN
         IF m1.abort THEN m1 ELSE [m1 EXCEPT !.replied = NotMasterReply]


(* --------------------- Database (database.js) -------------------------- *)

\* The number of buffers of one database.add.
BufferCounts == {0, 1, 2}
\* The dayTimestamp arguments of database.remove.
RemoveArguments == {undefined, 0, 2}

\* database.add of one record to <<g, d>>: the group and the time entry
\* are created when missing, `adding` is emitted, and the write is under way.
DatabaseAdd(m, g, d, dataBuffers) ==
    LET e == <<g, d>>
        group == IF m.groups[g].exists THEN m.groups[g]
                 ELSE [NoGroup EXCEPT !.exists = TRUE]
        m1 == IF d \in group.timeEntries
              THEN m
              ELSE [m EXCEPT !.groups[g] =
                                 [group EXCEPT !.timeEntries = @ \cup {d},
                                               !.timeEntryCount = @ + 1],
                             !.te[e] = FreshTimeEntry]
        m2 == [m1 EXCEPT !.writing = @ \cup {e}, !.addsLeft = @ - 1]
    IN  IF m2.subscribed
        THEN onAddingToOurDatabase([m2 EXCEPT !.events = @ + 1], g, d,
                                   dataBuffers, m2.events + 1)
        ELSE m2

\* The write of database.add has finished.
DatabaseAdded(m, e) ==
    [m EXCEPT !.te[e].writtenSize = @ + 1, !.writing = @ \ {e}]

\* database.remove(g, dayTimestamp): the group's remove, and on success the
\* `remove` event.
DatabaseRemove(m, g, dayTimestamp, failAt) ==
    LET m1 == [GroupRemove(m, g, dayTimestamp, failAt)
                 EXCEPT !.removesLeft = @ - 1]
        whole == dayTimestamp = undefined \/ dayTimestamp = 0
        failed == IF whole THEN failAt # 0
                  ELSE failAt \in 1..Len(DayTimestampsToRemove(m, g, dayTimestamp))
        m2 == IF whole /\ ~failed THEN [m1 EXCEPT !.groups[g] = NoGroup] ELSE m1
    IN  IF ~failed /\ m2.subscribed
        THEN onRemoveFromOurDatabase(m2, g, dayTimestamp)
        ELSE m2

DatabaseRemoveOne(m, g, d, renameFails) ==
    [GroupRemoveOne(m, g, d, renameFails) EXCEPT !.removesLeft = @ - 1]


(* ------------------------- initial states ------------------------------ *)

Sizes == {undefined} \cup (0..MaxSize)

\* No function of group.js has been called yet; tick tells one call from
\* the next.
NoCall ==
    [op |-> "none", tick |-> FALSE, group |-> undefinedName,
     dayTimestamp |-> undefined, name |-> <<>>, result |-> FALSE,
     callbacks |-> <<>>, counter |-> 0, closing |-> {}, failAt |-> 0,
     destroys |-> 0]

\* No client has connected.
NoClient == [phase |-> "none"]

\* Every table of contents over Groups and Days.
Tocs ==
    {t \in [groups : SUBSET Groups, size : [Keys -> Sizes]] :
        \A e \in Keys : e[1] \notin t.groups => t.size[e] = undefined}

\* The tables of contents a slave answers getToc with in a run, and the
\* contents the master's database starts a run with.
SlaveTocs ==
    {t \in Tocs : \A e \in Keys :
        IF e = <<"a", 1>> THEN t.size[e] \in {undefined, MaxSize}
        ELSE t.size[e] = undefined}
MasterContents ==
    {t \in Tocs : /\ t.groups \subseteq {"a"}
                  /\ "a" \in t.groups <=> t.size[<<"a", 1>>] # undefined
                  /\ t.size[<<"a", 2>>] = undefined}

GroupOf(t, g) ==
    IF g \in t.groups
    THEN [exists |-> TRUE, closed |-> FALSE,
          timeEntries |-> {d \in Days : t.size[<<g, d>>] # undefined},
          timeEntryCount |-> Cardinality({d \in Days : t.size[<<g, d>>] # undefined})]
    ELSE NoGroup

\* The state after construction, with the server's role and the database's
\* contents drawn from the given sets.
InitFrom(roles, contents) ==
    /\ state = UNINITIALIZED
    /\ resultCheckThreshold \in 1..MaxThreshold
    /\ serverRole \in roles
    /\ replied = {}
    /\ destroyed = FALSE
    /\ closeEmitted = FALSE
    /\ closeListener = FALSE
    /\ toc = EmptyToc
    /\ workQueue = <<>>
    /\ currentWorkItem = NoItem
    /\ resultCheckCounter = 0
    /\ cleanupHandler = NoItem
    /\ nextOpId = 0
    /\ replicatorStarted = FALSE
    /\ pending = {CB("initialize", NoItem, <<>>)}
    /\ \E t \in contents :
          /\ groups = [g \in Groups |-> GroupOf(t, g)]
          /\ te = [e \in Keys |->
                     IF t.size[e] = undefined THEN FreshTimeEntry
                     ELSE [FreshTimeEntry EXCEPT !.writtenSize = t.size[e]]]
    /\ dbLocked = FALSE
    /\ writing = {}
    /\ subscribed = FALSE
    /\ otherSession = "background"
    /\ nextId = 1
    /\ cleaned = {}
    /\ readers = {}
    /\ startOrder = <<>>
    /\ doneCalls = [c \in 1..MaxAdds |-> 0]
    /\ events = 0
    /\ failedAsserts = {}
    /\ thrown = {}
    /\ build = "unknown"
    /\ addOpids = {}
    /\ opidClash = FALSE
    /\ unchecked = 0
    /\ lastSent = Message("none", undefinedName, undefined, undefined)
    /\ addsLeft = MaxAdds
    /\ removesLeft = MaxRemoves
    /\ refused = FALSE
    /\ afterRefusal = {}
    /\ readError = FALSE
    /\ lastCall = NoCall
    /\ client = NoClient

Init == InitFrom({"master", "slave"}, MasterContents)

(* ----------------------------- actions --------------------------------- *)

\* The state with callback cb taken from the event loop to be run.
Take(cb, i) == [Pack(i) EXCEPT !.pending = @ \ {cb}]

\* The callbacks given to _writeJSON and _write, by the function they are.
WriteCallbacks ==
    {"sentRemoveOneCommand", "sentRemoveCommand", "written",
     "dataFileRecordSent", "resultsSentAfterRecord", "resultsSentAtEof",
     "checkResultsSent"}

WriteCallback(m, cb, err) ==
    CASE cb.k = "sentRemoveOneCommand" ->
           sentRemoveOneCommand(m, err, cb.item, cb.rest)
      [] cb.k = "sentRemoveCommand" -> sentRemoveCommand(m, err, cb.item)
      [] cb.k = "written" -> written(m, cb.item)
      [] cb.k = "dataFileRecordSent" ->
           dataFileRecordSent(m, err, cb.item, cb.rest[1])
      [] cb.k = "resultsSentAfterRecord" ->
           resultsSentAfterRecord(m, err, cb.item, cb.rest[1])
      [] cb.k = "resultsSentAtEof" -> resultsSentAtEof(m, err, cb.item)
      [] cb.k = "checkResultsSent" -> checkResultsSent(m, err, cb.item)

\* The callbacks given to _readJsonObject.
ReplyCallbacks ==
    {"_continueReplication", "pingReply", "receivedReplyForRemoveOneCommand",
     "receivedReplyForRemoveCommand", "refillReply",
     "handleCheckResultAfterSendingDataFileRecord", "dataFileFullyStreamed",
     "handleCheckResult"}

\* The callbacks that take the reply to a `remove`, a `removeOne` or a
\* `results` command.
CommandReplyCallbacks == ReplyCallbacks \ {"_continueReplication", "pingReply"}

\* refused records that one of these commands was answered with a status
\* other than ok.
ReplyCallback(m0, cb, r, slaveToc) ==
    LET m == [m0 EXCEPT !.refused = @ \/ (cb.k \in CommandReplyCallbacks
                                            /\ r # "ok")] IN
    CASE cb.k = "_continueReplication" -> _continueReplication(m, slaveToc)
      [] cb.k = "pingReply" -> pingReply(m)
      [] cb.k = "receivedReplyForRemoveOneCommand" ->
           receivedReplyForRemoveOneCommand(m, r, cb.item, cb.rest)
      [] cb.k = "receivedReplyForRemoveCommand" ->
           receivedReplyForRemoveCommand(m, r, cb.item)
      [] cb.k = "refillReply" -> refillReply(m, r, cb.item)
      [] cb.k = "handleCheckResultAfterSendingDataFileRecord" ->
           handleCheckResultAfterSendingDataFileRecord(m, r, cb.item, cb.rest[1])
      [] cb.k = "dataFileFullyStreamed" -> dataFileFullyStreamed(m, r, cb.item)
      [] cb.k = "handleCheckResult" -> handleCheckResult(m, r, cb.item)

\* The callbacks given to timeEntry.get and timeEntry.each.
TimeEntryCallbacks == {"get", "each"}

\* readError records whether the read came back with an error.
TimeEntryCallback(m0, cb, err) ==
    LET m == [m0 EXCEPT !.readError = err] IN
    CASE cb.k = "get" -> getCallback(m, err, cb.item)
      [] cb.k = "each" -> eachCallback(m, err, cb.item, cb.rest[1])

\* The server hands the connection to the session.
Initialize ==
    \E cb \in pending, i \in Inputs :
        /\ cb.k = "initialize"
        /\ Unpack(initialize(Take(cb, i)))

\* process.nextTick(processNextReplicationCommand), from startReplicator.
NextTick ==
    \E cb \in pending, i \in Inputs :
        /\ cb.k = "processNextReplicationCommand"
        /\ Unpack(processNextReplicationCommand(Take(cb, i)))

\* A write to the socket has been flushed, or has failed: it fails on a
\* connection that is broken.
SocketWritten ==
    \E cb \in pending, i \in Inputs, err \in BOOLEAN :
        /\ cb.k \in WriteCallbacks
        /\ err => destroyed
        /\ Unpack(WriteCallback(Take(cb, i), cb, err))

\* readJsonObject comes back with the slave's reply, or with its failure;
\* the read fails with an I/O error on a connection that is broken, and the
\* reply to getToc is the table of contents.
ReplyRead ==
    \E cb \in pending, i \in Inputs, r \in Replies, slaveToc \in SlaveTocs :
        /\ cb.k \in ReplyCallbacks
        /\ r = "ioerror" => destroyed
        /\ cb.k = "_continueReplication" => r # "error"
        /\ (cb.k # "_continueReplication" \/ r # "ok") => slaveToc = EmptyToc
        /\ Unpack(IF Delivered(Take(cb, i), r)
                  THEN ReplyCallback(Take(cb, i), cb, r, slaveToc)
                  ELSE _readJsonObject(Take(cb, i), r))

\* A read of a data file comes back.
TimeEntryRead ==
    \E cb \in pending, i \in Inputs, err \in BOOLEAN :
        /\ cb.k \in TimeEntryCallbacks
        /\ Unpack(TimeEntryCallback(Take(cb, i), cb, err))

\* database.lock calls back: the adds that were under way have finished.
LockGranted ==
    \E cb \in pending, i \in Inputs :
        /\ cb.k = "lockCallback"
        /\ writing = {}
        /\ Unpack(lockCallback(Take(cb, i)))

\* The socket's 'drain' event after _disconnect: the socket is destroyed.
SocketDrained ==
    \E cb \in pending, i \in Inputs :
        /\ cb.k = "drain"
        /\ Unpack([Take(cb, i) EXCEPT !.destroyed = TRUE])

\* The peer closes the connection, or the connection breaks.
PeerClose ==
    \E i \in Inputs :
        /\ ~destroyed
        /\ Unpack([Pack(i) EXCEPT !.destroyed = TRUE])

\* The socket's 'close' event, which follows its destruction.
SocketClose ==
    \E i \in Inputs :
        /\ destroyed /\ ~closeEmitted
        /\ Unpack(IF closeListener
                  THEN onConnectionClose([Pack(i) EXCEPT !.closeEmitted = TRUE])
                  ELSE [Pack(i) EXCEPT !.closeEmitted = TRUE])

\* The time entries a client writes to and removes in a run.
AddKeys == {<<"a", 1>>}

\* A client's database.add to one of the given time entries: no add starts
\* while the database is locked, one write at a time is under way on a time
\* entry, and a name is reused once nothing refers to the removed entry.
DbAddTo(keys) ==
    \E e \in keys, dataBuffers \in BufferCounts, i \in Inputs :
        /\ ~dbLocked
        /\ addsLeft > 0
        /\ e \notin writing
        /\ IF groups[e[1]].exists /\ e[2] \in groups[e[1]].timeEntries
           THEN te[e].writtenSize < MaxSize
           ELSE te[e].readOperations = 0
        /\ Unpack(DatabaseAdd(Pack(i), e[1], e[2], dataBuffers))

DbAdd == DbAddTo(AddKeys)

DbAdded ==
    \E e \in writing, i \in Inputs :
        Unpack(DatabaseAdded(Pack(i), e))

DbRemove ==
    \E g \in Groups, dayTimestamp \in RemoveArguments, failAt \in 0..1, i \in Inputs :
        /\ ~dbLocked
        /\ removesLeft > 0
        /\ groups[g].exists
        /\ Unpack(DatabaseRemove(Pack(i), g, dayTimestamp, failAt))

DbRemoveOne ==
    \E g \in Groups, d \in Days, renameFails \in BOOLEAN, i \in Inputs :
        /\ ~dbLocked
        /\ removesLeft > 0
        /\ groups[g].exists
        /\ Unpack(DatabaseRemoveOne(Pack(i), g, d, renameFails))

Next ==
    \/ Initialize
    \/ NextTick
    \/ SocketWritten
    \/ ReplyRead
    \/ TimeEntryRead
    \/ LockGranted
    \/ SocketDrained
    \/ PeerClose
    \/ SocketClose
    \/ DbAdd
    \/ DbAdded
    \/ DbRemove
    \/ DbRemoveOne

Spec == Init /\ [][Next]_vars

(* ------------- one synchronization with the master quiesced ------------ *)

\* A master that no client writes to, a connection that stays up, and a
\* slave that answers ok to every command, starting from the contents and
\* the slave tables of ConvergeTocs.
ConvergeTocs ==
    {t \in Tocs : /\ t.size[<<"b", 2>>] = undefined
                  /\ \A e \in Keys : t.size[e] # 0}

InitConverge == InitFrom({"master"}, ConvergeTocs)

SocketWrittenOk ==
    \E cb \in pending, i \in Inputs :
        /\ cb.k \in WriteCallbacks
        /\ Unpack(WriteCallback(Take(cb, i), cb, FALSE))

ReplyOkFrom(tocs) ==
    \E cb \in pending, i \in Inputs, slaveToc \in tocs :
        /\ cb.k \in ReplyCallbacks
        /\ cb.k # "_continueReplication" => slaveToc = EmptyToc
        /\ Unpack(ReplyCallback(Take(cb, i), cb, "ok", slaveToc))

ReplyOk == ReplyOkFrom(ConvergeTocs \cup {EmptyToc})

TimeEntryReadOk ==
    \E cb \in pending, i \in Inputs :
        /\ cb.k \in TimeEntryCallbacks
        /\ Unpack(TimeEntryCallback(Take(cb, i), cb, FALSE))

NextConverge ==
    \/ Initialize
    \/ SocketWrittenOk
    \/ ReplyOk
    \/ TimeEntryReadOk
    \/ LockGranted

SpecConverge == InitConverge /\ [][NextConverge]_vars

(* ------------ two sessions synchronizing at the same time -------------- *)

\* The session next to another replica-slave session of the same server,
\* which takes and releases the database's one boolean lock on its own way
\* through doneBackgroundSynchronizing and doneLockedSynchronizing, while
\* clients write to two time entries; the slave answers ok and the
\* connection stays up.
LockKeys == {<<"a", 1>>, <<"b", 1>>}

InitLock == InitFrom({"master"}, {EmptyToc})

ReplyOkEmptySlave == ReplyOkFrom({EmptyToc})

DbAddTwo == DbAddTo(LockKeys)

OtherSessionLocks ==
    \E i \in Inputs :
        /\ otherSession = "background"
        /\ Unpack([Pack(i) EXCEPT !.otherSession = "locked", !.dbLocked = TRUE])

OtherSessionUnlocks ==
    \E i \in Inputs :
        /\ otherSession = "locked"
        /\ Unpack([Pack(i) EXCEPT !.otherSession = "ready", !.dbLocked = FALSE])

NextLock ==
    \/ Initialize
    \/ NextTick
    \/ SocketWrittenOk
    \/ ReplyOkEmptySlave
    \/ TimeEntryReadOk
    \/ LockGranted
    \/ DbAddTwo
    \/ DbAdded
    \/ DbRemove
    \/ OtherSessionLocks
    \/ OtherSessionUnlocks

SpecLock == InitLock /\ [][NextLock]_vars

(* ------------- scheduleSlaveSynchronizationCommands alone -------------- *)

\* The tables of contents and the master contents the diff is run on.
DiffTocs == {t \in Tocs : t.size[<<"b", 2>>] = undefined}

\* The session as _continueReplication has set it up at line 925, before
\* its first scheduleSlaveSynchronizationCommands: the slave's table of
\* contents has arrived and the work queue is empty.
InitDiff ==
    /\ state = BACKGROUND_SYNCHRONIZING
    /\ resultCheckThreshold = 1
    /\ serverRole = "master"
    /\ replied = OkReply
    /\ destroyed = FALSE
    /\ closeEmitted = FALSE
    /\ closeListener = TRUE
    /\ toc \in DiffTocs
    /\ workQueue = <<>>
    /\ currentWorkItem = NoItem
    /\ resultCheckCounter = 0
    /\ cleanupHandler = NoItem
    /\ nextOpId = 0
    /\ replicatorStarted = FALSE
    /\ pending = {}
    /\ \E t \in DiffTocs :
          /\ groups = [g \in Groups |-> GroupOf(t, g)]
          /\ te = [e \in Keys |->
                     IF t.size[e] = undefined THEN FreshTimeEntry
                     ELSE [FreshTimeEntry EXCEPT !.writtenSize = t.size[e]]]
    /\ dbLocked = FALSE
    /\ writing = {}
    /\ subscribed = FALSE
    /\ otherSession = "background"
    /\ nextId = 1
    /\ cleaned = {}
    /\ readers = {}
    /\ startOrder = <<>>
    /\ doneCalls = [c \in 1..MaxAdds |-> 0]
    /\ events = 0
    /\ failedAsserts = {}
    /\ thrown = {}
    /\ build = "unknown"
    /\ addOpids = {}
    /\ opidClash = FALSE
    /\ unchecked = 0
    /\ lastSent = Message("getToc", undefinedName, undefined, undefined)
    /\ addsLeft = 0
    /\ removesLeft = 0
    /\ refused = FALSE
    /\ afterRefusal = {}
    /\ readError = FALSE
    /\ lastCall = NoCall
    /\ client = NoClient

Schedule ==
    \E i \in Inputs :
        /\ workQueue = <<>>
        /\ Unpack(scheduleSlaveSynchronizationCommands(Pack(i)))

NextDiff == Schedule

SpecDiff == InitDiff /\ [][NextDiff]_vars

(* ------------------------------ claims --------------------------------- *)

\* The master has the time entry e.
MasterHas(e) == groups[e[1]].exists /\ e[2] \in groups[e[1]].timeEntries

\* The mirror of the slave's table of contents equals the master's: an
\* entry of size writtenSize for every master entry with writtenSize > 0,
\* and no entry and no group that is absent on the master.
MirrorEqualsMaster ==
    /\ \A e \in Keys :
          /\ (MasterHas(e) /\ te[e].writtenSize > 0) => toc.size[e] = te[e].writtenSize
          /\ toc.size[e] # undefined => MasterHas(e) /\ toc.size[e] = te[e].writtenSize
    /\ \A g \in toc.groups : groups[g].exists

\* No callback of the session is registered: the session takes no further
\* step unless an event of the database or of the socket comes.
Idle == pending = {}

\* C1: with the master quiesced, the connection up and the slave answering
\* ok, a session that has come to rest has reached READY, and its mirror of
\* the slave's table of contents equals the master's.
C1_Convergence == Idle => (state = READY /\ MirrorEqualsMaster)

\* C2: the state moves one step forward along UNINITIALIZED,
\* BACKGROUND_SYNCHRONIZING, LOCKED_SYNCHRONIZING, READY, or to DISCONNECTED,
\* and once it is DISCONNECTED no step changes it.
C2_StateForward ==
    [][/\ state' # state => (state' = state + 1 \/ state' = DISCONNECTED)
       /\ state = DISCONNECTED => state' = DISCONNECTED]_vars

\* A session that was READY and forwarding, has disconnected and has seen
\* its socket close.
C2_Witness ==
    /\ state = DISCONNECTED
    /\ closeEmitted
    /\ events > 0
    /\ startOrder # <<>>

\* No work item is queued and none is in flight.
NoWorkItem ==
    /\ workQueue = <<>>
    /\ currentWorkItem = NoItem \/ currentWorkItem.id \in cleaned

\* C3: a session without a queued and without an in-flight work item
\* contributes 0 to the readOperations of every time entry: every
\* incReadOperations for a FILL item was matched by a decReadOperations at
\* the item's cleanup.
C3_ReadOperationsReleased ==
    NoWorkItem => \A e \in Keys : te[e].readOperations = 0

\* C4: Group.removeOne and Group.remove rename a time entry's directory
\* away only when the entry's readOperations is 0.
C4_NotDestroyedWhileRead ==
    [][\A e \in Keys :
          (te'[e].hidden /\ ~te[e].hidden) => te[e].readOperations = 0]_vars

\* C5: the done callback of every `adding` event delivered to the session
\* has been invoked exactly once when the session has come to rest with its
\* socket open (the slave has answered everything it was sent), and no done
\* callback is invoked twice.
C5_DoneInvokedOnce ==
    /\ \A c \in 1..MaxAdds : doneCalls[c] <= 1
    /\ (Idle /\ ~destroyed) => \A c \in 1..events : doneCalls[c] = 1

\* The work queue one run of scheduleSlaveSynchronizationCommands leaves:
\* the queue itself once the run has filled it, and what the run enqueues
\* while the queue is empty.
DiffQueue ==
    IF workQueue # <<>> THEN workQueue
    ELSE scheduleSlaveSynchronizationCommands(
             Pack(CHOOSE i \in Inputs : TRUE)).workQueue

ItemOf(command, g, d) == <<command, g, d>>

\* The slave's entry e is larger than the master's.
SlaveAhead(e) ==
    TocHasEntry(toc, e[1], e[2]) /\ MasterHas(e) /\ toc.size[e] > te[e].writtenSize

ExpectedPrunes ==
    {ItemOf(PRUNE_ONE_COMMAND, g, undefined) :
        g \in {h \in toc.groups : ~groups[h].exists}}
    \cup {ItemOf(PRUNE_ONE_COMMAND, e[1], e[2]) :
            e \in {f \in Keys : /\ TocHasEntry(toc, f[1], f[2])
                                /\ groups[f[1]].exists
                                /\ ~MasterHas(f) \/ SlaveAhead(f)}}

ExpectedFills ==
    {ItemOf(FILL_COMMAND, e[1], e[2]) :
        e \in {f \in Keys :
                 /\ MasterHas(f)
                 /\ \/ SlaveAhead(f)
                    \/ /\ TocHasEntry(toc, f[1], f[2])
                       /\ te[f].writtenSize > toc.size[f]
                    \/ /\ ~TocHasEntry(toc, f[1], f[2])
                       /\ te[f].writtenSize > 0}}

\* C6: one run of scheduleSlaveSynchronizationCommands on an empty queue
\* enqueues exactly the expected PRUNE_ONE and FILL items, each once, the
\* FILL of an entry the slave is ahead on directly after its PRUNE_ONE, the
\* FILLs without buffers and without callback, and it enqueues nothing
\* exactly when the slave's table of contents matches the master.
C6_Diff ==
    LET queue == DiffQueue
        items == [k \in 1..Len(queue) |->
                    ItemOf(queue[k].command, queue[k].groupName,
                           queue[k].dayTimestamp)]
        expected == ExpectedPrunes \cup ExpectedFills
    IN  /\ {items[k] : k \in 1..Len(items)} = expected
        /\ Len(items) = Cardinality(expected)
        /\ \A e \in Keys :
              SlaveAhead(e) =>
                 \E k \in 1..(Len(items) - 1) :
                    /\ items[k] = ItemOf(PRUNE_ONE_COMMAND, e[1], e[2])
                    /\ items[k + 1] = ItemOf(FILL_COMMAND, e[1], e[2])
        /\ \A k \in 1..Len(queue) :
              queue[k].dataBuffers = undefined /\ queue[k].callback = noCallback
        /\ queue = <<>> <=> MirrorEqualsMaster

\* A run has enqueued the PRUNE_ONE of an entry the slave is ahead on
\* directly followed by its FILL, the PRUNE_ONE of a group the master lacks,
\* and the FILL of an entry the slave lacks.
C6_Witness ==
    /\ Len(workQueue) = 4
    /\ workQueue[1].command = PRUNE_ONE_COMMAND
    /\ workQueue[2].command = FILL_COMMAND
    /\ workQueue[2].dayTimestamp = workQueue[1].dayTimestamp
    /\ workQueue[3].command = PRUNE_ONE_COMMAND
    /\ workQueue[3].dayTimestamp = undefined
    /\ workQueue[4].command = FILL_COMMAND
    /\ ~TocHasEntry(toc, workQueue[4].groupName, workQueue[4].dayTimestamp)
    /\ pending = {}

\* C7: the work items are started in the order they were enqueued (the
\* k-th item started is the k-th item enqueued), and every item started
\* before the latest one has been cleaned up: at most one is in flight.
C7_FifoOneInFlight ==
    /\ \A k \in 1..Len(startOrder) : startOrder[k] = k
    /\ \A k \in 1..(Len(startOrder) - 1) : startOrder[k] \in cleaned

\* In READY an item is in flight, an earlier one is done, and a later
\* event's item waits in the queue behind it.
C7_Witness ==
    /\ state = READY
    /\ Len(startOrder) >= 2
    /\ startOrder[Len(startOrder)] \notin cleaned
    /\ workQueue # <<>>
    /\ events >= 2

\* C8: the opids of the `add` commands sent since the last acknowledged
\* `results` are pairwise distinct: they are 0 .. nextOpId - 1, so that
\* nextOpId is 0 when a `results` has just been acknowledged.
C8_OpidsDistinct ==
    /\ ~opidClash
    /\ addOpids = 0..(nextOpId - 1)

\* Two `add` commands went out in READY with no `results` between them:
\* they carry the opids 0 and 1.
C8_Witness ==
    /\ state = READY
    /\ addOpids = {0, 1}
    /\ nextOpId = 2
    /\ lastSent.command = "add"

BufferFill(item) == item.command = FILL_COMMAND /\ item.dataBuffers # undefined

\* The buffer FILL items of the queue behind its last CHECK_RESULTS item.
TrailingFills ==
    LET checks == {k \in 1..Len(workQueue) :
                      workQueue[k].command = CHECK_RESULTS_COMMAND}
        last == IF checks = {} THEN 0
                ELSE CHOOSE k \in checks : \A j \in checks : j <= k
    IN  Cardinality({k \in (last + 1)..Len(workQueue) : BufferFill(workQueue[k])})

FromHandler(item) ==
    item.dataBuffers # undefined \/ item.group # undefinedName

\* C10: the assertions of the `adding` and `remove` handlers (lines 828 and
\* 850) and of fill (lines 608 and 611) never fail, and an item a handler
\* has enqueued is in the queue of a session that is READY (or was, before
\* it disconnected).
C10_HandlersOnlyInReady ==
    /\ failedAsserts \cap {828, 850, 608, 611} = {}
    /\ \A k \in 1..Len(workQueue) :
          FromHandler(workQueue[k]) => state \in {READY, DISCONNECTED}

\* C11: once the slave has answered a `remove`, a `removeOne` or a `results`
\* command with a status other than ok, the session is DISCONNECTED, and
\* from then on it writes no command and starts no work item.
C11_NoRetryAfterRefusal ==
    refused => (state = DISCONNECTED /\ afterRefusal = {})

\* A refusal came while another item was waiting in the queue; the socket
\* has closed and the cleanup has run.
C11_Witness ==
    /\ refused
    /\ closeEmitted
    /\ pending = {}
    /\ Len(startOrder) < nextId - 1

Connected0 == state # DISCONNECTED /\ ~destroyed

\* The callbacks of kind k that run in this step.
Ran(k) == {cb \in pending \ pending' : cb.k = k}

\* The callbacks of kind k that this step registers for the work item of cb.
Registered(k, cb) ==
    {c \in pending' \ pending : c.k = k /\ c.item.id = cb.item.id}

\* The session is as connected after the step as before it.
StaysConnected == Connected0 /\ state' # DISCONNECTED /\ ~destroyed'

\* C21: while the connection is up, a streaming FILL sends one `add` for
\* each record the reader delivers, with the next opid; after each record
\* sent the reader goes on to the next one, at once or after the `results`
\* the threshold asks for has been answered ok; at the end of the file it
\* sends `results` when an `add` is unchecked and waits for the answer, and
\* then, or at once when none is unchecked, the item is cleaned up and the
\* next item of the queue is started.  dataFileRecordSent does not throw.
C21_Streaming ==
    /\ 770 \notin thrown'
    /\ \A cb \in Ran("each") :
         LET e == TimeEntryOf(cb.item) IN
         StaysConnected =>
            IF cb.rest[1] < te[e].writtenSize
            THEN /\ lastSent' = AddMessage(e[1], e[2], nextOpId, undefined)
                 /\ unchecked' = unchecked + 1
                 /\ Registered("dataFileRecordSent", cb) # {}
                 /\ \A c \in Registered("dataFileRecordSent", cb) :
                       c.rest[1] = cb.rest[1] + 1
            ELSE IF unchecked > 0
            THEN /\ lastSent'.command = "results"
                 /\ Registered("resultsSentAtEof", cb) # {}
                 /\ cb.item.id \notin cleaned'
            ELSE /\ Registered("resultsSentAtEof", cb) = {}
                 /\ cb.item.id \in cleaned'
                 /\ workQueue # <<>> =>
                       startOrder' = Append(startOrder, workQueue[1].id)
    /\ \A cb \in Ran("dataFileRecordSent") :
         StaysConnected =>
            \/ /\ Registered("each", cb) # {}
               /\ lastSent' = lastSent
            \/ /\ Registered("resultsSentAfterRecord", cb) # {}
               /\ lastSent'.command = "results"
               /\ unchecked = resultCheckThreshold
    /\ \A cb \in Ran("handleCheckResultAfterSendingDataFileRecord") :
         StaysConnected =>
            /\ Registered("each", cb) # {}
            /\ \A c \in Registered("each", cb) : c.rest = cb.rest
    /\ \A cb \in Ran("dataFileFullyStreamed") :
         StaysConnected =>
            /\ cb.item.id \in cleaned'
            /\ workQueue # <<>> =>
                  startOrder' = Append(startOrder, workQueue[1].id)

C21_StreamingFill == [][C21_Streaming]_vars

\* The session is gone: its socket has closed, the close handler has run
\* and no callback of the session is left to run.
Gone == closeEmitted /\ pending = {}

\* C22: a session that is gone does not leave the database locked: the
\* database.lock it took on entering LOCKED_SYNCHRONIZING has been followed
\* by database.unlock, whether the session reached READY or disconnected
\* before or after the lock callback ran.
C22_LockReleased == Gone => ~dbLocked

\* The session is READY and at rest on an open connection: it has sent
\* everything it was given, and no write of the database is under way.
ReadyAtRest ==
    /\ state = READY /\ ~destroyed
    /\ pending = {} /\ workQueue = <<>>
    /\ writing = {}

\* C23: no write of the master is lost or duplicated across the step from
\* LOCKED_SYNCHRONIZING to READY: as long as nothing was removed, a session
\* that is READY and at rest has sent the slave every record the master
\* holds exactly once, through the streaming of its final diff or through
\* the forwarding of its `adding` handler, so that its mirror of the
\* slave's sizes equals the master's sizes; also next to another session
\* that takes and releases the database's one lock.
C23_NoWriteLost ==
    (ReadyAtRest /\ removesLeft = MaxRemoves) =>
        \A e \in Keys :
            IF MasterHas(e) /\ te[e].writtenSize > 0
            THEN toc.size[e] = te[e].writtenSize
            ELSE toc.size[e] \in {undefined, 0}

\* This step starts a work item that the `remove` handler has enqueued, and
\* the item is the one in flight after the step.
StartsRemoveItem ==
    /\ startOrder' # startOrder
    /\ currentWorkItem'.id = startOrder'[Len(startOrder')]
    /\ currentWorkItem'.group # undefinedName

\* The elements of a sequence.
Range(seq) == {seq[k] : k \in 1..Len(seq)}

\* C24, for a `remove` event without dayTimestamp: its work item sends one
\* `remove` command that names the group, and the group leaves the mirror.
C24_RemoveGroup ==
    (StartsRemoveItem /\ currentWorkItem'.dayTimestamp = undefined) =>
        /\ lastSent' = Message("remove", currentWorkItem'.group, undefined,
                               undefined)
        /\ currentWorkItem'.group \notin toc'.groups
        /\ Registered("sentRemoveCommand", [item |-> currentWorkItem']) # {}

\* C24, for a `remove` event with dayTimestamp d: the mirrored days of the
\* group below d leave the mirror and the others stay; a `removeOne` goes
\* out for one of them and the rest wait for its reply; each ok reply is
\* followed by the `removeOne` of one more day, and by the cleanup of the
\* item when none is left.
C24_RemoveBelow ==
    /\ (StartsRemoveItem /\ currentWorkItem'.dayTimestamp # undefined) =>
         LET it == currentWorkItem'
             g == it.group
             days == {d \in Days : TocHasEntry(toc, g, d) /\ d < it.dayTimestamp}
         IN  /\ \A d \in Days :
                   TocHasEntry(toc', g, d) <=>
                      (TocHasEntry(toc, g, d) /\ d >= it.dayTimestamp)
             /\ lastSent'.command = "removeOne" /\ lastSent'.group = g
             /\ lastSent'.dayTimestamp \in days
             /\ \E c \in Registered("sentRemoveOneCommand", [item |-> it]) :
                   /\ Range(c.rest) = days \ {lastSent'.dayTimestamp}
                   /\ Len(c.rest) = Cardinality(days) - 1
    /\ \A cb \in Ran("receivedReplyForRemoveOneCommand") :
         StaysConnected =>
            IF cb.rest = <<>> THEN cb.item.id \in cleaned'
            ELSE /\ lastSent'.command = "removeOne"
                 /\ lastSent'.group = cb.item.group
                 /\ lastSent'.dayTimestamp \in Range(cb.rest)
                 /\ \E c \in Registered("sentRemoveOneCommand", cb) :
                       /\ Range(c.rest) = Range(cb.rest) \ {lastSent'.dayTimestamp}
                       /\ Len(c.rest) = Len(cb.rest) - 1

C24_RemoveForwarded == [][C24_RemoveGroup /\ C24_RemoveBelow]_vars

\* C25: the two assertions of pruneOne never fail, and pruneOne never
\* reads a day of a group the mirror lacks: whenever a PRUNE_ONE item is
\* processed, the mirror has the item's group and, for an item with a
\* dayTimestamp, that day's entry.
C25_PruneOneFindsItsTarget ==
    /\ failedAsserts \cap {543, 552} = {}
    /\ 552 \notin thrown

\* C26: when the read of the master's time entry at the slave's size
\* fails, the session sends `removeOne` for the entry, leaves the mirrored
\* size as it is and starts no streaming; the streaming starts, at offset 0
\* and with a mirrored size of 0, when the reply is ok, and on any other
\* outcome the session sends nothing more for the item.  When the read
\* succeeds, the streaming starts at the slave's size and nothing is sent.
C26_Refill ==
    /\ \A cb \in Ran("get") :
         LET e == TimeEntryOf(cb.item) IN
         StaysConnected =>
            IF readError'
            THEN /\ lastSent' = Message("removeOne", e[1], e[2], undefined)
                 /\ Registered("refillReply", cb) # {}
                 /\ Registered("each", cb) = {}
                 /\ toc' = toc
            ELSE /\ Registered("each", cb) # {}
                 /\ \A c \in Registered("each", cb) : c.rest = <<toc.size[e]>>
                 /\ Registered("refillReply", cb) = {}
                 /\ lastSent' = lastSent
                 /\ toc' = toc
    /\ \A cb \in Ran("refillReply") :
         LET e == TimeEntryOf(cb.item) IN
         IF Registered("each", cb) # {}
         THEN /\ ~refused' /\ StaysConnected
              /\ toc'.size[e] = 0
              /\ \A c \in Registered("each", cb) : c.rest = <<0>>
         ELSE /\ state' = DISCONNECTED \/ destroyed
              /\ lastSent' = lastSent
              /\ toc' = toc

C26_RefillAfterReadError == [][C26_Refill]_vars

\* The read of an entry that holds records on the master has failed, the
\* slave has answered ok to `removeOne`, and the streaming from offset 0 is
\* under way.
C26_Witness ==
    /\ readError
    /\ lastSent.command = "removeOne"
    /\ \E cb \in pending :
          /\ cb.k = "each" /\ cb.rest = <<0>>
          /\ toc.size[TimeEntryOf(cb.item)] = 0
          /\ te[TimeEntryOf(cb.item)].writtenSize > 0

\* C27: with one session on a database whose lock holds, the work queue is
\* empty when the callback of database.lock runs (the assertion at line
\* 894), and the diff that is run again when the queue has drained in
\* LOCKED_SYNCHRONIZING schedules nothing (the assertion at line 411).
C27_LockedDiffIsEmpty == failedAsserts \cap {411, 894} = {}

\* After writes of a client and work of the first phase, the lock callback
\* has run, the queue has drained in LOCKED_SYNCHRONIZING, the diff has been
\* run again, and the session has sent `ping` with its mirror equal to the
\* master.
C27_Witness ==
    /\ state = LOCKED_SYNCHRONIZING /\ dbLocked
    /\ lastSent.command = "ping"
    /\ startOrder # <<>>
    /\ addsLeft < MaxAdds
    /\ MirrorEqualsMaster

\* This step starts a buffer FILL, which is the item in flight after it.
StartsBufferFill ==
    /\ startOrder' # startOrder
    /\ currentWorkItem'.id = startOrder'[Len(startOrder')]
    /\ currentWorkItem'.dataBuffers # undefined

\* C28: a buffer FILL started in READY sends one `add` with the total
\* length of its buffers as size, dayTimestamp * 86400 as timestamp and the
\* current nextOpId, which is then incremented, as opid, followed by the
\* buffers in order, with one `written` callback on the last write.  When
\* `written` runs, the mirrored size of the entry has grown by the item's
\* size, the item is cleaned up, once, and on an open connection the next
\* item of the queue is started; no reply is read in between.  An item
\* without buffers behaves the same, with size 0.
C28_BufferFill ==
    /\ (StartsBufferFill /\ state = READY) =>
         LET it == currentWorkItem' IN
         /\ state' = READY
         /\ lastSent' = [command |-> "add", group |-> it.groupName,
                         dayTimestamp |-> it.dayTimestamp,
                         opid |-> nextOpId' - 1,
                         timestamp |-> it.dayTimestamp * 86400,
                         size |-> it.dataBuffers * BufferLength]
         /\ Ran("handleCheckResult") = {} => nextOpId' = nextOpId + 1
         /\ Cardinality(Registered("written", [item |-> it])) = 1
         /\ \A c \in Registered("written", [item |-> it]) :
               c.rest = [i \in 1..it.dataBuffers |-> i]
         /\ it.id \notin cleaned'
         /\ \A c \in pending' : c.k \in ReplyCallbacks => c.item.id # it.id
    /\ \A cb \in Ran("written") :
         LET e == TimeEntryOf(cb.item) IN
         /\ cb.item.id \in cleaned'
         /\ cb.item.callback # noCallback => doneCalls'[cb.item.callback] = 1
         /\ StaysConnected =>
              /\ cb.item.id \notin cleaned
              /\ (workQueue = <<>> \/ workQueue[1].command # PRUNE_ALL_COMMAND)
                    => toc'.size[e] = toc.size[e] + cb.item.size
              /\ workQueue # <<>> =>
                    /\ Len(startOrder') > Len(startOrder)
                    /\ startOrder'[Len(startOrder) + 1] = workQueue[1].id

C28_BufferFillForwarded == [][C28_BufferFill]_vars

\* With a threshold of 2, an `add` without buffers has been sent in READY,
\* its write has completed and the session is at rest with the item
\* cleaned up.
C28_Witness ==
    /\ ReadyAtRest
    /\ resultCheckThreshold = 2
    /\ lastSent.command = "add" /\ lastSent.size = 0
    /\ cleaned # {}
    /\ currentWorkItem = NoItem

\* C29: once the socket has closed the session's state is DISCONNECTED, and
\* ready() is not true of a session of which connected() is false.
C29_ReadyImpliesConnected ==
    /\ closeEmitted => state = DISCONNECTED
    /\ state = READY => (state # DISCONNECTED /\ ~destroyed)

\* The socket's 'close' event has run onConnectionClose.
CleanedUp == closeEmitted /\ closeListener

\* C30: after the cleanup of the socket's close the work queue is empty and
\* stays empty, and no later callback enqueues an item or increments a time
\* entry's readOperations.
C30_NothingAfterCleanup ==
    [][ CleanedUp =>
          /\ workQueue = <<>> /\ workQueue' = <<>>
          /\ \A e \in DOMAIN te :
                 te'[e].readOperations <= te[e].readOperations ]_vars

(* --------------- a client's connection (server.js) --------------------- *)

\* The sizes of a record's header and footer (TimeEntry.HEADER_SIZE and
\* TimeEntry.FOOTER_SIZE), which clients add to the payload size to find
\* the next offset.
HEADER_SIZE == 2
FOOTER_SIZE == 1

\* The opids and the payload sizes of a client's `add` commands; all of
\* them go to one data file.
Opids == {1, 2}
PayloadSizes == {5, 6}

\* A message the server writes to the client.
ServerMessage(type, status, disconnect) ==
    [type |-> type, status |-> status, disconnect |-> disconnect,
     protocolMajor |-> IF type = "greeting" THEN 1 ELSE undefined,
     protocolMinor |-> IF type = "greeting" THEN 0 ELSE undefined,
     fields |-> IF type = "greeting"
                THEN {"protocolMajor", "protocolMinor", "serverName",
                      "host", "port", "role"}
                ELSE {},
     results |-> {}]

\* An opid of the table that no `add` has used since the last `results`.
NoOpid == [status |-> "absent", offset |-> undefined]

\* The connection right after the server has accepted it.  opids is the
\* table of the connection, dataFileSize the size of the data file with
\* the records whose write is under way; reads, last, adds, mark and
\* failed observe the run: the frames the server has read, the last
\* command among them, the adds it has accepted in order, the number of
\* them at the last `results` reply, and whether a write has failed.
Connected ==
    [phase |-> "connected", out |-> <<>>, opids |-> [o \in Opids |-> NoOpid],
     dataFileSize |-> 0, waiting |-> FALSE, discard |-> FALSE, reads |-> 0,
     last |-> [command |-> "none", opid |-> undefined, valid |-> TRUE],
     adds |-> <<>>, mark |-> 0, failed |-> FALSE, commandsLeft |-> MaxCommands]

serverWrite(c, message) == [c EXCEPT !.out = Append(@, message)]

\* An error reply with disconnect: true; the connection is closed once the
\* reply is flushed.
disconnectWithError(c) ==
    [serverWrite(c, ServerMessage("status", "error", TRUE))
       EXCEPT !.phase = "closing"]

\* The server sends its greeting.
sendGreeting(c) ==
    [serverWrite(c, ServerMessage("greeting", "", FALSE))
       EXCEPT !.phase = "greeted"]

\* handshake denying without disconnect: true and without closing.
handshakeDenyOpen(c, deny) ==
    LET c1 == [c EXCEPT !.reads = @ + 1] IN
    [serverWrite(c1, ServerMessage("status", IF deny THEN "error" ELSE "ok",
                                   FALSE))
       EXCEPT !.phase = "open"]

\* The server reads the client's role and approves or denies the handshake.
handshake(c, deny) ==
    LET c1 == [c EXCEPT !.reads = @ + 1] IN
    IF deny THEN disconnectWithError(c1)
    ELSE [serverWrite(c1, ServerMessage("status", "ok", FALSE))
            EXCEPT !.phase = "open"]

\* `add` taking an opid that is still in the table.
addCommandAnyOpid(c, opid, size, valid) ==
    LET c1 == [c EXCEPT !.reads = @ + 1, !.commandsLeft = @ - 1,
                        !.last = [command |-> "add", opid |-> opid,
                                  valid |-> valid]] IN
    IF ~valid THEN disconnectWithError(c1)
    ELSE [c1 EXCEPT !.opids[opid] = [status |-> "pending",
                                     offset |-> c.dataFileSize],
                    !.dataFileSize = @ + HEADER_SIZE + size + FOOTER_SIZE,
                    !.adds = Append(@, [opid |-> opid, size |-> size])]

\* `add` handing out offsets that leave out the footer.
addCommandNoFooter(c, opid, size, valid) ==
    LET c1 == [c EXCEPT !.reads = @ + 1, !.commandsLeft = @ - 1,
                        !.last = [command |-> "add", opid |-> opid,
                                  valid |-> valid]] IN
    IF ~valid \/ c.opids[opid].status # "absent" THEN disconnectWithError(c1)
    ELSE [c1 EXCEPT !.opids[opid] = [status |-> "pending",
                                     offset |-> c.dataFileSize],
                    !.dataFileSize = @ + HEADER_SIZE + size,
                    !.adds = Append(@, [opid |-> opid, size |-> size])]

\* The `add` command with its payload: validated, then the write is put
\* under way at the end of the data file; no reply.
addCommand(c, opid, size, valid) ==
    LET c1 == [c EXCEPT !.reads = @ + 1, !.commandsLeft = @ - 1,
                        !.last = [command |-> "add", opid |-> opid,
                                  valid |-> valid]] IN
    IF ~valid \/ c.opids[opid].status # "absent" THEN disconnectWithError(c1)
    ELSE [c1 EXCEPT !.opids[opid] = [status |-> "pending",
                                     offset |-> c.dataFileSize],
                    !.dataFileSize = @ + HEADER_SIZE + size + FOOTER_SIZE,
                    !.adds = Append(@, [opid |-> opid, size |-> size])]

\* The write of an `add` has finished, with or without an error.
addFinished(c, opid, ok) ==
    [c EXCEPT !.opids[opid].status = IF ok THEN "ok" ELSE "error",
              !.failed = @ \/ ~ok]

\* The `results` command: the reply waits for the writes under way.
resultsCommand(c, discard) ==
    [c EXCEPT !.reads = @ + 1, !.commandsLeft = @ - 1, !.waiting = TRUE,
              !.discard = discard,
              !.last = [command |-> "results", opid |-> undefined,
                        valid |-> TRUE]]

\* The entries of the table, as the reply to `results` carries them.
ResultEntries(c) ==
    {[opid |-> o, status |-> c.opids[o].status,
      offset |-> IF c.opids[o].status = "ok" THEN c.opids[o].offset
                 ELSE undefined] :
       o \in {x \in Opids : c.opids[x].status # "absent"}}

\* The reply to `results` keeping the table.
resultsReplyKeeping(c) ==
    [serverWrite(c, [ServerMessage("results", "ok", FALSE)
                       EXCEPT !.results = IF c.discard THEN {}
                                          ELSE ResultEntries(c)])
       EXCEPT !.waiting = FALSE, !.mark = Len(c.adds)]

\* The reply to `results`: the whole table, which is then cleared.
resultsReply(c) ==
    [serverWrite(c, [ServerMessage("results", "ok", FALSE)
                       EXCEPT !.results = IF c.discard THEN {}
                                          ELSE ResultEntries(c)])
       EXCEPT !.opids = [o \in Opids |-> NoOpid], !.waiting = FALSE,
              !.mark = Len(c.adds)]

\* Drained taking writes under way for finished.
DrainedAlways(c) == TRUE

\* Whether every write is finished, so that `results` can be answered.
Drained(c) == \A o \in Opids : c.opids[o].status # "pending"

closeConnection(c) == [c EXCEPT !.phase = "closed"]

InitClient ==
    /\ InitFrom({"master"}, {EmptyToc})
    /\ resultCheckThreshold = 1

\* A step of the client's connection.
ClientStep(c) ==
    /\ client' = c
    /\ UNCHANGED <<state, resultCheckThreshold, serverRole, replied,
                   destroyed, closeEmitted, toc, workQueue,
                   currentWorkItem, resultCheckCounter, cleanupHandler,
                   nextOpId, replicatorStarted, pending, groups, te,
                   dbLocked, writing, subscribed, otherSession, nextId,
                   cleaned, readers, startOrder, doneCalls, events,
                   failedAsserts, thrown, build, addOpids, opidClash,
                   unchecked, lastSent, closeListener, addsLeft,
                   removesLeft, refused, afterRefusal, readError, lastCall>>

Accept == client.phase = "none" /\ ClientStep(Connected)

Greet == client.phase = "connected" /\ ClientStep(sendGreeting(client))

Handshake ==
    \E deny \in BOOLEAN :
        client.phase = "greeted" /\ ClientStep(handshake(client, deny))

\* The server reads one command at a time, and none while a reply is due.
ReadsCommands ==
    client.phase = "open" /\ ~client.waiting /\ client.commandsLeft > 0

AddCommand ==
    \E opid \in Opids, size \in PayloadSizes, valid \in BOOLEAN :
        ReadsCommands /\ ClientStep(addCommand(client, opid, size, valid))

AddFinished ==
    \E opid \in Opids, ok \in BOOLEAN :
        /\ client.phase # "none"
        /\ client.opids[opid].status = "pending"
        /\ ClientStep(addFinished(client, opid, ok))

ResultsCommand ==
    \E discard \in BOOLEAN :
        ReadsCommands /\ ClientStep(resultsCommand(client, discard))

ResultsReply ==
    /\ client.phase = "open" /\ client.waiting
    /\ Drained(client)
    /\ ClientStep(resultsReply(client))

CloseConnection ==
    client.phase = "closing" /\ ClientStep(closeConnection(client))

NextClient ==
    \/ Accept
    \/ Greet
    \/ Handshake
    \/ AddCommand
    \/ AddFinished
    \/ ResultsCommand
    \/ ResultsReply
    \/ CloseConnection

SpecClient == InitClient /\ [][NextClient]_vars

\* C19: the server sends its greeting (protocolMajor 1, protocolMinor 0,
\* serverName, host, port, role) before it reads anything from the client;
\* after the client's role reply it sends exactly one status reply, which
\* is ok on approval and carries disconnect: true on denial, and after a
\* denial the server writes and reads nothing more and closes the
\* connection.
C19_GreetingFirst ==
    (client.phase # "none" /\ client.reads > 0) =>
        /\ Len(client.out) >= 1
        /\ client.out[1].type = "greeting"
        /\ client.out[1].protocolMajor = 1
        /\ client.out[1].protocolMinor = 0
        /\ client.out[1].fields = {"protocolMajor", "protocolMinor",
                                   "serverName", "host", "port", "role"}

C19_OneStatusReply ==
    (client.phase = "greeted" /\ client' # client) =>
        /\ client'.reads = 1
        /\ Len(client'.out) = 2
        /\ client'.out[1] = client.out[1]
        /\ client'.out[2].type = "status"
        /\ \/ /\ client'.out[2].status = "ok"
              /\ ~client'.out[2].disconnect
              /\ client'.phase = "open"
           \/ /\ client'.out[2].status # "ok"
              /\ client'.out[2].disconnect
              /\ client'.phase = "closing"

C19_ClosedAfterDenial ==
    (client.phase = "closing" /\ client' # client) =>
        /\ client'.out = client.out
        /\ client'.reads = client.reads
        /\ client'.phase \in {"closing", "closed"}

C19_Handshake ==
    /\ []C19_GreetingFirst
    /\ [][C19_OneStatusReply]_vars
    /\ [][C19_ClosedAfterDenial]_vars

\* The handshake was denied and the connection is closed.
C19_Witness ==
    /\ client.phase = "closed"
    /\ Len(client.out) = 2
    /\ client.out[2].status = "error"
    /\ client.out[2].disconnect

\* The server has read a well-formed `add` in this step.
ReadAdd ==
    /\ client.phase = "open"
    /\ client'.reads = client.reads + 1
    /\ client'.last.command = "add"
    /\ client'.last.valid

\* The server has answered a `results` command in this step.
AnsweredResults == client.phase = "open" /\ client.waiting /\ ~client'.waiting

\* C13: an `add` whose opid was used by an earlier `add` and not cleared
\* by `results` since gets an error reply with disconnect: true, changes
\* nothing else, and the connection is closed; the reply to `results`
\* clears every opid, and an `add` with a cleared opid is accepted.
C13_DuplicateOpid ==
    /\ ReadAdd =>
         IF client.opids[client'.last.opid].status # "absent"
         THEN /\ client'.out =
                   Append(client.out, ServerMessage("status", "error", TRUE))
              /\ client'.phase = "closing"
              /\ client'.opids = client.opids
              /\ client'.adds = client.adds
              /\ client'.dataFileSize = client.dataFileSize
         ELSE /\ client'.out = client.out
              /\ client'.phase = "open"
              /\ client'.opids[client'.last.opid].status = "pending"
              /\ client'.adds[Len(client'.adds)].opid = client'.last.opid
    /\ AnsweredResults =>
         \A o \in Opids : client'.opids[o].status = "absent"
    /\ (client.phase = "closing" /\ client' # client) =>
         /\ client'.reads = client.reads
         /\ client'.out = client.out
         /\ client'.phase \in {"closing", "closed"}

C13_OpidRule == [][C13_DuplicateOpid]_vars

\* An opid was used, cleared by `results`, accepted again, and then
\* refused while still in the table; the connection is closed.
C13_Witness ==
    /\ client.phase = "closed"
    /\ client.last.command = "add" /\ client.last.valid
    /\ Len(client.adds) = 2
    /\ client.adds[1].opid = client.adds[2].opid
    /\ client.last.opid = client.adds[2].opid
    /\ client.mark = 1
    /\ client.out[Len(client.out)] = ServerMessage("status", "error", TRUE)

\* The opids of the adds accepted since the previous reply to `results`.
UsedSince(c) == {c.adds[k].opid : k \in (c.mark + 1)..Len(c.adds)}

\* The reply written in this step.
Written == client'.out[Len(client'.out)]

\* The reply to `results` has one entry for each opid used since the
\* previous reply and no other, and the table is cleared.
OneEntryPerOpid ==
    /\ Len(client'.out) = Len(client.out) + 1
    /\ Written.type = "results" /\ Written.status = "ok"
    /\ {e.opid : e \in Written.results} = UsedSince(client)
    /\ Cardinality(Written.results) = Cardinality(UsedSince(client))
    /\ \A o \in Opids : client'.opids[o].status = "absent"
    /\ UsedSince(client') = {}

\* The reply to `results` has an empty map, and the table is cleared.
EmptyResults ==
    /\ Len(client'.out) = Len(client.out) + 1
    /\ Written.type = "results" /\ Written.status = "ok"
    /\ Written.results = {}
    /\ \A o \in Opids : client'.opids[o].status = "absent"
    /\ UsedSince(client') = {}

\* C14 as stated: every `results` command is answered with exactly one
\* entry for every opid used in an `add` since the previous `results`,
\* and the table is then cleared, so that a `results` with no `add` since
\* the previous one is answered {results: {}, status: ok}.
C14_ResultsPerOpid == [][AnsweredResults => OneEntryPerOpid]_vars

\* C14, amended: a `results` command without discard: true is answered
\* with exactly one entry for every opid used in an `add` since the
\* previous `results`, one with discard: true with an empty map; either
\* way the table is then cleared, so that a `results` with no `add` since
\* the previous one is answered {results: {}, status: ok}.
C14_ResultsPerOpidUnlessDiscarded ==
    [][AnsweredResults =>
         /\ ~client.discard => OneEntryPerOpid
         /\ client.discard => EmptyResults
         /\ UsedSince(client) = {} => Written.results = {}]_vars

\* Two opids were reported by one reply, and the next `results`, with no
\* `add` in between, was answered with an empty map.
C14_Witness ==
    /\ client.phase = "open"
    /\ Len(client.out) = 4
    /\ Cardinality(client.out[3].results) = 2
    /\ client.out[4].type = "results" /\ client.out[4].results = {}
    /\ ~client.discard
    /\ Len(client.adds) = 2 /\ client.mark = 2

\* C15: a valid `add` produces no reply, and nothing is written to the
\* client until the server reads its next command; the reply to a later
\* `results` is sent only when every `add` read before it has finished,
\* and every opid in that reply has a final status, ok with an offset or
\* error, none pending.
C15_AddIsAsynchronous ==
    /\ (ReadAdd /\ client.opids[client'.last.opid].status = "absent") =>
         client'.out = client.out
    /\ (client.phase = "open" /\ client'.out # client.out) =>
         \/ AnsweredResults
         \/ client'.reads = client.reads + 1 /\ client'.phase = "closing"
    /\ AnsweredResults =>
         /\ \A o \in Opids : client.opids[o].status # "pending"
         /\ client'.last.command = "results"
         /\ \A e \in Written.results :
              \/ e.status = "ok" /\ e.offset \in Nat
              \/ e.status = "error" /\ e.offset = undefined

C15_Asynchronous == [][C15_AddIsAsynchronous]_vars

\* Two adds, one written and one failed, were reported by the reply to
\* `results`, the first message after the handshake.
C15_Witness ==
    /\ client.phase = "open"
    /\ Len(client.out) = 3
    /\ Len(client.adds) = 2
    /\ {e.status : e \in client.out[3].results} = {"ok", "error"}

\* The offset the k-th accepted add is to report: 0 for the first, and for
\* each later one the end of the record before it.
RECURSIVE ExpectedOffset(_, _)
ExpectedOffset(adds, k) ==
    IF k = 1 THEN 0
    ELSE ExpectedOffset(adds, k - 1)
           + HEADER_SIZE + adds[k - 1].size + FOOTER_SIZE

\* The place of the last accepted add with this opid.
LastAddWith(adds, opid) ==
    CHOOSE k \in 1..Len(adds) :
        /\ adds[k].opid = opid
        /\ \A j \in (k + 1)..Len(adds) : adds[j].opid # opid

\* C16: as long as every add to the data file succeeds, the offsets the
\* replies to `results` report are 0 for the first record and, for each
\* later record, the offset of the record before it plus HEADER_SIZE, its
\* payload size and FOOTER_SIZE, in the order the adds were sent, whether
\* or not a `results` came in between.
C16_OffsetsInReply ==
    (AnsweredResults /\ ~client.failed /\ ~client.discard) =>
        \A e \in Written.results :
            /\ e.status = "ok"
            /\ e.offset = ExpectedOffset(client.adds,
                                         LastAddWith(client.adds, e.opid))

C16_Offsets == [][C16_OffsetsInReply]_vars

\* A first reply reported the first add at offset 0, and the second reply
\* reports two later adds behind it, one record apart.
C16_Witness ==
    /\ client.phase = "open" /\ ~client.failed
    /\ Len(client.out) = 4
    /\ \E e \in client.out[3].results : e.offset = 0
    /\ \E e1, e2 \in client.out[4].results :
           /\ e1.offset = HEADER_SIZE + client.adds[1].size + FOOTER_SIZE
           /\ e2.offset = e1.offset + HEADER_SIZE + client.adds[2].size
                            + FOOTER_SIZE

(* ------------------------ calls of Group.remove ------------------------ *)

\* The dayTimestamp arguments remove is called with.
RemoveDays == {undefined} \cup (0..3)

\* Groups with every combination of time entries, none of them being read.
InitGroup == InitFrom({"master"}, DiffTocs)

\* The functions of group.js take nothing from the event loop.
GroupInputs == {CHOOSE i \in Inputs : TRUE}

\* group.remove(dayTimestamp, callback) on an existing group; failAt is the
\* rename that throws (0: none does).
GroupRemoveCall ==
    \E g \in Groups, dayTimestamp \in RemoveDays, failAt \in 0..2, i \in GroupInputs :
        /\ groups[g].exists /\ ~groups[g].closed
        /\ lastCall.closing = {}
        /\ UnpackSession(GroupRemove(Pack(i), g, dayTimestamp, failAt))
        /\ lastCall' = [NoCall EXCEPT
                          !.op = "remove", !.tick = ~lastCall.tick,
                          !.group = g, !.dayTimestamp = dayTimestamp,
                          !.failAt = failAt,
                          !.result = "ok" \in
                              {RemoveCallbacks(Pack(i), g, dayTimestamp, failAt)[k] :
                                 k \in 1..Len(RemoveCallbacks(Pack(i), g, dayTimestamp, failAt))},
                          !.callbacks =
                              RemoveCallbacks(Pack(i), g, dayTimestamp, failAt)]
        /\ UNCHANGED client

\* group.removeOne(dayTimestamp, callback) on an existing group; renameFails
\* is the outcome of the rename.
GroupRemoveOneCall ==
    \E g \in Groups, dst \in Days, renameFails \in BOOLEAN, i \in GroupInputs :
        /\ groups[g].exists /\ ~groups[g].closed
        /\ lastCall.closing = {}
        /\ UnpackSession(GroupRemoveOne(Pack(i), g, dst, renameFails))
        /\ lastCall' = [NoCall EXCEPT
                          !.op = "removeOne", !.tick = ~lastCall.tick,
                          !.group = g, !.dayTimestamp = dst,
                          !.result =
                              RemoveOneCallbacks(Pack(i), g, dst, renameFails)
                                = <<"ok">>,
                          !.callbacks =
                              RemoveOneCallbacks(Pack(i), g, dst, renameFails)]
        /\ UNCHANGED client

\* group.close(callback) on an existing group.
GroupCloseCall ==
    \E g \in Groups, i \in GroupInputs :
        /\ groups[g].exists
        /\ lastCall.closing = {}
        /\ UnpackSession(GroupClose(Pack(i), g))
        /\ lastCall' = [NoCall EXCEPT
                          !.op = "close", !.tick = ~lastCall.tick,
                          !.group = g,
                          !.counter = CloseCalls(Pack(i), g).counter,
                          !.closing = CloseCalls(Pack(i), g).closing,
                          !.callbacks = CloseCalls(Pack(i), g).callbacks]
        /\ UNCHANGED client

\* A time entry of the group being closed has finished closing and calls
\* the function close gave it.
TimeEntryClosed ==
    \E d \in lastCall.closing :
        /\ lastCall' = timeEntryClosed(lastCall, d)
        /\ UNCHANGED <<client>>
        /\ \E i \in GroupInputs : UnpackSession(Pack(i))

NextGroup ==
    GroupRemoveCall \/ GroupRemoveOneCall \/ GroupCloseCall \/ TimeEntryClosed

SpecGroup == InitGroup /\ [][NextGroup]_vars

\* C17: a call of remove with a dayTimestamp >= 0 calls its callback exactly
\* once, and when no rename fails it removes from timeEntries exactly the
\* entries below dayTimestamp, closes each of them, decrements
\* timeEntryCount once for each, and leaves its other entries as they were.
C17_RemoveBelow ==
    [][(/\ lastCall'.op = "remove" /\ lastCall'.tick # lastCall.tick
        /\ lastCall'.dayTimestamp >= 0) =>
         LET g == lastCall'.group
             d == lastCall'.dayTimestamp
             below == {x \in groups[g].timeEntries : x < d}
         IN  /\ Len(lastCall'.callbacks) = 1
             /\ lastCall'.result =>
                   /\ groups'[g].timeEntries = groups[g].timeEntries \ below
                   /\ groups'[g].timeEntryCount =
                         groups[g].timeEntryCount - Cardinality(below)
                   /\ \A x \in below : te'[<<g, x>>].closed
                   /\ \A x \in groups[g].timeEntries \ below :
                         te'[<<g, x>>] = te[<<g, x>>]]_vars

\* C31: removeOne on an existing entry whose rename succeeds removes that
\* key from timeEntries, closes and hides the entry and decrements
\* timeEntryCount by one; on a missing entry or a failed rename it changes
\* nothing; it leaves every other entry and group as it was, calls its
\* callback exactly once (with the error exactly on a failed rename), and
\* keeps timeEntryCount equal to the number of keys of timeEntries.
C31_RemoveOne ==
    [][(lastCall'.op = "removeOne" /\ lastCall'.tick # lastCall.tick) =>
         LET g == lastCall'.group
             d == lastCall'.dayTimestamp
             existed == d \in groups[g].timeEntries
         IN  /\ Len(lastCall'.callbacks) = 1
             /\ lastCall'.callbacks = <<"err">> => existed
             /\ \A h \in Groups \ {g} : groups'[h] = groups[h]
             /\ \A e \in Keys \ {<<g, d>>} : te'[e] = te[e]
             /\ groups[g].timeEntryCount = Cardinality(groups[g].timeEntries)
                  => groups'[g].timeEntryCount
                       = Cardinality(groups'[g].timeEntries)
             /\ IF existed /\ lastCall'.callbacks = <<"ok">>
                THEN /\ groups'[g].timeEntries = groups[g].timeEntries \ {d}
                     /\ groups'[g].timeEntryCount = groups[g].timeEntryCount - 1
                     /\ te'[<<g, d>>].closed
                     /\ te'[<<g, d>>].hidden
                ELSE /\ groups'[g] = groups[g]
                     /\ te' = te]_vars

\* removeOne has removed an entry of a group that keeps another entry.
C31_Witness ==
    /\ lastCall.op = "removeOne"
    /\ lastCall.callbacks = <<"ok">>
    /\ te[<<lastCall.group, lastCall.dayTimestamp>>].closed
    /\ lastCall.dayTimestamp \notin groups[lastCall.group].timeEntries
    /\ groups[lastCall.group].timeEntryCount = 1

\* C32: when the rename of the failAt-th entry below dayTimestamp throws in
\* remove(dayTimestamp, callback), the entries before it are removed from
\* timeEntries, closed and hidden, the failing entry and the entries after
\* it stay in timeEntries as they were, timeEntryCount is the number of the
\* entries that remain, and the callback is called exactly once, with the
\* error.
C32_RemoveFailsPartWay ==
    [][(lastCall'.op = "remove" /\ lastCall'.tick # lastCall.tick) =>
         LET g == lastCall'.group
             d == lastCall'.dayTimestamp
             dts == SelectSeq(DaySeq,
                      LAMBDA x : x \in groups[g].timeEntries /\ x < d)
             failAt == lastCall'.failAt
             renamed == {dts[k] : k \in 1..(failAt - 1)}
         IN  (d >= 1 /\ failAt \in 1..Len(dts)) =>
               /\ lastCall'.callbacks = <<"err">>
               /\ groups'[g].timeEntries = groups[g].timeEntries \ renamed
               /\ \A x \in renamed :
                     te'[<<g, x>>].closed /\ te'[<<g, x>>].hidden
               /\ \A x \in Days \ renamed : te'[<<g, x>>] = te[<<g, x>>]
               /\ groups'[g].timeEntryCount
                    = Cardinality(groups'[g].timeEntries)
               /\ ~groups'[g].closed]_vars

\* The second rename has failed: the first entry is gone, the second stays.
C32_Witness ==
    /\ lastCall.op = "remove"
    /\ lastCall.failAt = 2
    /\ lastCall.callbacks = <<"err">>
    /\ groups[lastCall.group].timeEntries = {2}
    /\ te[<<lastCall.group, 1>>].closed
    /\ ~te[<<lastCall.group, 2>>].closed

\* The group g is closed and empty, and the entries in held are closed.
ClosedAndEmpty(g, held) ==
    /\ groups'[g].closed
    /\ groups'[g].timeEntries = {}
    /\ groups'[g].timeEntryCount = 0
    /\ \A x \in held : te'[<<g, x>>].closed

\* C33: close(callback) marks the group closed, empties timeEntries, resets
\* timeEntryCount to 0 and closes every time entry the group held; it calls
\* the callback exactly once, at once when the group held no entry and
\* otherwise when the last of the entries has finished closing.  A remove
\* without dayTimestamp whose rename succeeds leaves the group closed and
\* empty with timeEntryCount 0 and calls its callback exactly once.
C33_Close ==
    /\ [](lastCall.op = "close" =>
            /\ Len(lastCall.callbacks) <= 1
            /\ lastCall.callbacks = <<"ok">> <=> lastCall.closing = {})
    /\ [][/\ (lastCall'.op = "close" /\ lastCall'.tick # lastCall.tick) =>
               /\ ClosedAndEmpty(lastCall'.group,
                                 groups[lastCall'.group].timeEntries)
               /\ lastCall'.closing = groups[lastCall'.group].timeEntries
          /\ (/\ lastCall'.op = "remove" /\ lastCall'.tick # lastCall.tick
              /\ lastCall'.dayTimestamp = undefined
              /\ lastCall'.failAt = 0) =>
               /\ ClosedAndEmpty(lastCall'.group,
                                 groups[lastCall'.group].timeEntries)
               /\ lastCall'.callbacks = <<"ok">>]_vars

\* One of the two entries that close has closed has finished closing: the
\* callback has not been called yet.
C33_Witness ==
    /\ lastCall.op = "close"
    /\ lastCall.counter = 1
    /\ Cardinality(lastCall.closing) = 1
    /\ lastCall.callbacks = <<>>
    /\ groups[lastCall.group].closed
    /\ \A x \in Days : /\ te[<<lastCall.group, x>>].closed
                       /\ ~te[<<lastCall.group, x>>].hidden

(* --------------------- calls of validateGroupName ---------------------- *)

\* The names validateGroupName is called with.
Names == UNION {[1..n -> Chars] : n \in 0..MaxNameLen}

InitName == InitFrom({"master"}, {EmptyToc})

ValidateCall ==
    \E name \in Names :
        /\ lastCall' = [NoCall EXCEPT !.op = "validateGroupName",
                                      !.tick = ~lastCall.tick,
                                      !.name = name,
                                      !.result = validateGroupName(name)]
        /\ UNCHANGED <<state, resultCheckThreshold, serverRole, replied,
                       destroyed, closeEmitted, toc, workQueue,
                       currentWorkItem, resultCheckCounter, cleanupHandler,
                       nextOpId, replicatorStarted, pending, groups, te,
                       dbLocked, writing, subscribed, otherSession, nextId,
                       cleaned, readers, startOrder, doneCalls, events,
                       failedAsserts, thrown, build, addOpids, opidClash,
                       unchecked, lastSent, closeListener, addsLeft,
                       removesLeft, refused, afterRefusal, readError,
                       client>>

NextName == ValidateCall

SpecName == InitName /\ [][NextName]_vars

\* The characters of [A-Za-z0-9_.-] among Chars.
NameChars == {"a", "z", "A", "Z", "0", "9", "_", "-", "."}

\* C18: validateGroupName(name) is true exactly when name is not empty,
\* does not start with a dot, and has only characters of [A-Za-z0-9_.-].
C18_ValidateGroupName ==
    lastCall.op = "validateGroupName" =>
       (lastCall.result <=>
          /\ Len(lastCall.name) > 0
          /\ lastCall.name[1] # "."
          /\ \A k \in 1..Len(lastCall.name) : lastCall.name[k] \in NameChars)

(* ------------------------ calls of requestClose ------------------------ *)

\* requestClose(callback), which is _disconnect(callback); c tells the
\* callback of one call from that of another.  The 'drain' listener keeps
\* the callback; process.nextTick(callback) is a callback of the event loop.
requestClose(m, c) ==
    IF connected(m)
    THEN [(IF m.inp.buffered
           THEN Register(m, CB("drain", NoItem, <<c>>))
           ELSE Register([m EXCEPT !.destroyed = TRUE],
                         CB("closeCallback", NoItem, <<c>>)))
          EXCEPT !.state = DISCONNECTED]
    ELSE Register(m, CB("closeCallback", NoItem, <<c>>))

\* The server calls requestClose on a session it has initialized; counter
\* numbers the calls, callbacks lists the callbacks called so far, destroys
\* counts the calls of socket.destroy() that requestClose has led to.
RequestClose ==
    \E i \in Inputs :
        /\ \A cb \in pending : cb.k # "initialize"
        /\ lastCall.op \in {"none", "requestClose"}
        /\ lastCall.counter < MaxCloseRequests
        /\ UnpackSession(requestClose(Pack(i), lastCall.counter + 1))
        /\ lastCall' = [lastCall EXCEPT
                          !.op = "requestClose",
                          !.counter = @ + 1,
                          !.destroys = IF connected(Pack(i)) /\ ~i.buffered
                                       THEN @ + 1 ELSE @]
        /\ UNCHANGED client

\* process.nextTick(callback) of _disconnect runs the callback.
CloseCallbackTick ==
    \E cb \in pending, i \in Inputs :
        /\ cb.k = "closeCallback"
        /\ UnpackSession(Take(cb, i))
        /\ lastCall' = [lastCall EXCEPT !.callbacks = Append(@, cb.rest[1])]
        /\ UNCHANGED client

\* The socket's 'drain' event: the listener of _disconnect destroys the
\* socket and calls the callback it was given, if any.
SocketDrainedClose ==
    \E cb \in pending, i \in Inputs :
        /\ cb.k = "drain"
        /\ UnpackSession([Take(cb, i) EXCEPT !.destroyed = TRUE])
        /\ lastCall' = IF cb.rest = <<>> THEN lastCall
                       ELSE [lastCall EXCEPT
                               !.callbacks = Append(@, cb.rest[1]),
                               !.destroys = @ + 1]
        /\ UNCHANGED client

\* The session without writes of clients to the database: startReplicator
\* is not called, so no process.nextTick(processNextReplicationCommand) is
\* pending.
NextClose ==
    \/ Initialize
    \/ SocketWritten
    \/ ReplyRead
    \/ TimeEntryRead
    \/ LockGranted
    \/ PeerClose
    \/ SocketClose
    \/ SocketDrainedClose
    \/ RequestClose
    \/ CloseCallbackTick

SpecClose == Init /\ [][NextClose]_vars

\* The callbacks of requestClose that this step calls.
CloseCallbacksCalled ==
    {lastCall'.callbacks[k] :
       k \in (Len(lastCall.callbacks) + 1)..Len(lastCall'.callbacks)}

\* C34: once requestClose has returned the session is in DISCONNECTED, and
\* it is so when the callback is called; the callback of the 'drain'
\* listener is called with the socket destroyed; no callback is called
\* twice, and requestClose, called up to MaxCloseRequests times, leads to at
\* most one socket.destroy().
C34_RequestClose ==
    /\ [](lastCall.op = "requestClose" =>
            /\ state = DISCONNECTED
            /\ lastCall.destroys <= 1
            /\ \A j, k \in 1..Len(lastCall.callbacks) :
                  lastCall.callbacks[j] = lastCall.callbacks[k] => j = k)
    /\ [][CloseCallbacksCalled # {} =>
            /\ state' = DISCONNECTED
            /\ Ran("drain") # {} => destroyed']_vars

====
